---------------------------- MODULE Spec2Model ----------------------------
(***************************************************************************)
(* Infinarray: array-like access over a delimiter-separated record file.   *)
(* The instance state (checkpoint table, resident chunk, mutation buffer,  *)
(* counters, sample cache) and the file are modelled together; every       *)
(* public operation is one action.  Bytes are integers, a file is a        *)
(* sequence of bytes, records are natural numbers encoded by the default   *)
(* JSON codec (decimal digits).                                            *)
(***************************************************************************)
EXTENDS Integers, Sequences, FiniteSets, TLC

(***************************************************************************)
(* Bounds of the model.                                                    *)
(***************************************************************************)
MaxRecords == 4
MaxAccesses == 2
MaxLength == MaxRecords
\* the longest byte stream handed to a tokenizer, and the most chunks it
\* arrives in
MaxStream == 4
MaxChunks == MaxStream + 1
\* the at calls repeated beyond MaxAccesses
MaxRepeats == 1

(***************************************************************************)
(* Bytes.                                                                  *)
(***************************************************************************)
NL == 10
COMMA == 44
DIGIT0 == 48

Min(a, b) == IF a < b THEN a ELSE b
Max(a, b) == IF a > b THEN a ELSE b

\* buf.subarray(from, to) with 0-based, end-exclusive indices
Subarray(buf, from, to) == SubSeq(buf, from + 1, Min(to, Len(buf)))

(***************************************************************************)
(* The default codec: stringifyFn = JSON.stringify, parseLineFn =          *)
(* JSON.parse, on natural numbers below 100.                               *)
(***************************************************************************)
PARSE_ERROR == -1

Stringify(v) ==
  IF v < 10 THEN << DIGIT0 + v >>
  ELSE << DIGIT0 + (v \div 10), DIGIT0 + (v % 10) >>

IsDigit(b) == b >= DIGIT0 /\ b <= DIGIT0 + 9

\* JSON.parse skips leading and trailing white space (the newline byte)
RECURSIVE TrimLeft(_)
TrimLeft(line) ==
  IF Len(line) > 0 /\ line[1] = NL THEN TrimLeft(Tail(line)) ELSE line

RECURSIVE TrimRight(_)
TrimRight(line) ==
  IF Len(line) > 0 /\ line[Len(line)] = NL
  THEN TrimRight(SubSeq(line, 1, Len(line) - 1))
  ELSE line

\* JSON.parse of a line: a number without leading zero, or a SyntaxError
ParseLine(line) ==
  LET t == TrimRight(TrimLeft(line)) IN
  IF Len(t) = 1 /\ IsDigit(t[1]) THEN t[1] - DIGIT0
  ELSE IF Len(t) = 2 /\ IsDigit(t[1]) /\ IsDigit(t[2]) /\ t[1] # DIGIT0
       THEN 10 * (t[1] - DIGIT0) + (t[2] - DIGIT0)
       ELSE PARSE_ERROR

(***************************************************************************)
(* Tokenizer (lines.ts).                                                   *)
(***************************************************************************)
\* the inner for-loop comparing the delimiter bytes at position i
FullMatch(buf, i, bytesToMatch) ==
  \A k \in 0 .. (Len(bytesToMatch) - 1) :
     /\ i + k >= 0
     /\ i + k < Len(buf)
     /\ buf[i + k + 1] = bytesToMatch[k + 1]

RECURSIVE ScanSplit(_, _, _)
ScanSplit(buf, i, bytesToMatch) ==
  IF i >= Len(buf) THEN i + Len(bytesToMatch) - 1
  ELSE IF i >= 0 /\ buf[i + 1] = bytesToMatch[1]
       THEN IF Len(bytesToMatch) > 1
            THEN IF FullMatch(buf, i, bytesToMatch) THEN i
                 ELSE ScanSplit(buf, i + 1, bytesToMatch)
            ELSE i
       ELSE ScanSplit(buf, i + 1, bytesToMatch)

nextSplitPatternIdx(buf, offset, bytesToMatch) ==
  IF offset >= Len(buf) THEN -1 ELSE ScanSplit(buf, offset, bytesToMatch)

\* the closure state of one getLines() transform
TokInit(skipFirstLine) ==
  [buffered |-> << >>, numberBytes |-> 0, currIdx |-> 0,
   firstLineSkipped |-> ~skipFirstLine, out |-> << >>]

\* one line handed to this.push, or the first line swallowed
TokEmit(t, line) ==
  IF t.firstLineSkipped
  THEN [t EXCEPT !.out = Append(@, [idx |-> t.currIdx, byteIdx |-> t.numberBytes,
                                     line |-> line]),
                 !.currIdx = @ + 1,
                 !.numberBytes = @ + Len(line) + 1]
  ELSE [t EXCEPT !.firstLineSkipped = TRUE,
                 !.numberBytes = @ + Len(line) + 1]

RECURSIVE TokLoop(_, _, _, _, _)
TokLoop(t, buffer, offset, lastSplitIdx, splitBuffer) ==
  LET splitCharIdx ==
        nextSplitPatternIdx(buffer, offset - Len(splitBuffer) + 1, splitBuffer)
  IN IF splitCharIdx # -1 /\ splitCharIdx < Len(buffer)
     THEN LET t2 == IF lastSplitIdx # splitCharIdx
                    THEN TokEmit(t, Subarray(buffer, lastSplitIdx, splitCharIdx))
                    ELSE t
              off2 == splitCharIdx + Len(splitBuffer)
          IN TokLoop(t2, buffer, off2, off2, splitBuffer)
     ELSE [t EXCEPT !.buffered = Subarray(buffer, lastSplitIdx, Len(buffer))]

\* transform(chunk): the retained suffix is prepended to the chunk
TokTransform(t, chunk, splitBuffer) ==
  TokLoop([t EXCEPT !.buffered = << >>], t.buffered \o chunk,
          Len(t.buffered), 0, splitBuffer)

\* flush(): the final partial record
TokFlush(t) ==
  IF Len(t.buffered) > 0 THEN TokEmit(t, t.buffered) ELSE t

\* the tokenizer after the chunks of a stream, one transform call for each
RECURSIVE TokChunks(_, _, _)
TokChunks(t, chunks, splitBuffer) ==
  IF chunks = << >> THEN t
  ELSE TokChunks(TokTransform(t, Head(chunks), splitBuffer), Tail(chunks),
                 splitBuffer)

\* the triples a stream cut into the given chunks produces
getLinesOf(chunks, splitBuffer, skipFirstLine) ==
  TokFlush(TokChunks(TokInit(skipFirstLine), chunks, splitBuffer)).out

\* the triples one read stream produces: the bytes arrive as one chunk (the
\* files of the model are far below the 64 KiB high-water mark); an empty
\* range delivers no chunk at all
getLines(bytes, splitString, skipFirstLine) ==
  IF Len(bytes) = 0 THEN TokFlush(TokInit(skipFirstLine)).out
  ELSE TokFlush(TokTransform(TokInit(skipFirstLine), bytes, << splitString >>)).out

(***************************************************************************)
(* Instance state.                                                         *)
(***************************************************************************)
VARIABLES
  file,                  \* the bytes of the underlying file
  cfg,                   \* the options the instance was constructed with
  ready,
  elementsPerCheckpoint,
  checkpoints,           \* sequence of [byte, index]
  cachedChunk,           \* [idx, data], or NullChunk
  pushedValuesBuffer,
  arrayLength,
  cacheHits,
  cacheMisses,
  randomElementsCache,   \* sequence of [index, value]
  randomSampleSize,
  lastOp,                \* the operation that ran last, with its arguments
  ret,                   \* what it returned or threw
  stream,                \* a byte stream on its way through one tokenizer
  viewScan               \* the scan a view's forEach has started

instance == << file, cfg, ready, elementsPerCheckpoint, checkpoints,
               cachedChunk, pushedValuesBuffer, arrayLength, cacheHits,
               cacheMisses, randomElementsCache, randomSampleSize, lastOp,
               ret >>
vars == << instance, stream, viewScan >>

\* JavaScript's undefined, where a record value is expected
UNDEFINED == -2

NullChunk == [idx |-> -1, data |-> << >>]
\* an unassigned slot of new Array(n)
Hole == [index |-> -1, value |-> UNDEFINED]

\* the instance and its file as one value, for the operators below
State ==
  [file |-> file, ready |-> ready,
   elementsPerCheckpoint |-> elementsPerCheckpoint,
   checkpoints |-> checkpoints, cachedChunk |-> cachedChunk,
   pushedValuesBuffer |-> pushedValuesBuffer, arrayLength |-> arrayLength,
   cacheHits |-> cacheHits, cacheMisses |-> cacheMisses,
   randomElementsCache |-> randomElementsCache,
   randomSampleSize |-> randomSampleSize]

(***************************************************************************)
(* Results of operations: a value, undefined, a list, an entry, a number,  *)
(* or a thrown error.                                                      *)
(***************************************************************************)
Ret(kind, val, index, list) ==
  [kind |-> kind, val |-> val, index |-> index, list |-> list]
RetUndefined == Ret("undefined", 0, 0, << >>)
RetValue(v) == IF v = UNDEFINED THEN RetUndefined ELSE Ret("value", v, 0, << >>)
RetNumber(n) == Ret("number", n, 0, << >>)
RetList(l) == Ret("list", 0, 0, l)
RetEntry(i, v) == Ret("entry", v, i, << >>)
RetVoid == Ret("void", 0, 0, << >>)
RetBoolean(b) == Ret("boolean", IF b THEN 1 ELSE 0, 0, << >>)
RetError(e) == Ret(e, 0, 0, << >>)

NOT_READY_ERROR == "NotReadyError"
IsError(r) ==
  r.kind \in {NOT_READY_ERROR, "AlreadyInitialized", "ReadOnlyError",
              "TypeError", "RangeError", "SyntaxError", "FullyInMemoryError"}

\* array[i] of a JavaScript array (0-based), undefined outside it
JsAt(array, i) == IF i >= 0 /\ i < Len(array) THEN array[i + 1] ELSE UNDEFINED

\* createReadStream(filePath, {start, end}): end inclusive, -1 for none
ReadStream(f, start, end) ==
  IF end = -1 THEN Subarray(f, start, Len(f)) ELSE Subarray(f, start, end + 1)

\* the parsed records of a tokenized range, up to the first SyntaxError
ParseAll(lines) == [i \in 1 .. Len(lines) |-> ParseLine(lines[i].line)]
HasParseError(vals) == \E i \in 1 .. Len(vals) : vals[i] = PARSE_ERROR

isFullyInMemory(s) == s.elementsPerCheckpoint >= s.arrayLength

isIndexInPushBuffer(s, index) ==
  index >= s.arrayLength - Len(s.pushedValuesBuffer)

(***************************************************************************)
(* flushPushedValues                                                       *)
(***************************************************************************)
\* the forEach over the buffer: acc = [str, currByteIdx, checkpoints]
RECURSIVE FlushLoop(_, _, _, _, _)
FlushLoop(acc, buffer, idx, lastFlushedIndex, epc) ==
  IF idx >= Len(buffer) THEN acc
  ELSE LET currIdx == lastFlushedIndex + idx + 1
           str1 == acc.str \o Stringify(buffer[idx + 1])
           byte1 == acc.currByteIdx + Len(str1)
           cps1 == IF currIdx % epc = 0
                   THEN Append(acc.checkpoints, [byte |-> byte1, index |-> currIdx])
                   ELSE acc.checkpoints
           last == idx = Len(buffer) - 1
       IN FlushLoop([str |-> IF last THEN str1 ELSE Append(str1, cfg.delimiter),
                     currByteIdx |-> IF last THEN byte1 ELSE byte1 + 1,
                     checkpoints |-> cps1],
                    buffer, idx + 1, lastFlushedIndex, epc)

flushPushedValues(s) ==
  IF Len(s.pushedValuesBuffer) = 0 THEN s
  ELSE LET size == Len(s.file)
           delimiterExistsAtEnd == size > 0 /\ s.file[size] = cfg.delimiter
           lead == ~delimiterExistsAtEnd /\ size > 0
           lastFlushedIndex == s.arrayLength - Len(s.pushedValuesBuffer)
           acc == FlushLoop([str |-> IF lead THEN << NL >> ELSE << >>,
                             currByteIdx |-> IF lead THEN size + 1 ELSE size,
                             checkpoints |-> s.checkpoints],
                            s.pushedValuesBuffer, 0, lastFlushedIndex,
                            s.elementsPerCheckpoint)
       IN [s EXCEPT !.file = @ \o acc.str,
                    !.checkpoints = acc.checkpoints,
                    !.pushedValuesBuffer = << >>]

(***************************************************************************)
(* generateCheckpoints: one full pass over the file.                       *)
(***************************************************************************)
\* the write callback over the lines; stops at the first SyntaxError
RECURSIVE BuildLoop(_, _, _, _, _)
BuildLoop(acc, lines, k, warmupCacheCheckpointIdx, epc) ==
  IF k > Len(lines) \/ acc.err # "" THEN acc
  ELSE LET chunk == lines[k]
           inWindow == /\ warmupCacheCheckpointIdx <= chunk.idx
                       /\ chunk.idx < warmupCacheCheckpointIdx + epc
           parsed == ParseLine(chunk.line)
       IN IF inWindow /\ parsed = PARSE_ERROR
          THEN [acc EXCEPT !.err = "SyntaxError"]
          ELSE BuildLoop(
                 [acc EXCEPT
                    !.precache = IF inWindow THEN Append(@, parsed) ELSE @,
                    !.arrayLength = @ + 1,
                    !.checkpoints =
                       IF chunk.idx % epc = 0
                       THEN Append(@, [byte |-> chunk.byteIdx, index |-> chunk.idx])
                       ELSE @],
                 lines, k + 1, warmupCacheCheckpointIdx, epc)

\* returns [s, err]; on an error the pass stops with the length counted so far
generateCheckpoints(s0, warmupCacheIdx) ==
  LET s == flushPushedValues(s0)
      epc == s.elementsPerCheckpoint
      warmupCacheCheckpointIdx == warmupCacheIdx \div epc
      lines == getLines(ReadStream(s.file, 0, -1), cfg.delimiter, cfg.skipHeader)
      acc == BuildLoop([precache |-> << >>, arrayLength |-> 0,
                        checkpoints |-> << >>, err |-> ""],
                       lines, 1, warmupCacheCheckpointIdx, epc)
  IN IF acc.err # ""
     THEN [s |-> [s EXCEPT !.arrayLength = acc.arrayLength], err |-> acc.err]
     ELSE [s |-> [s EXCEPT
                    !.arrayLength = acc.arrayLength,
                    !.cachedChunk = [idx |-> warmupCacheCheckpointIdx,
                                     data |-> acc.precache],
                    !.checkpoints =
                       IF Len(acc.checkpoints) = 0
                       THEN << [byte |-> 0, index |-> 0] >>
                       ELSE acc.checkpoints],
           err |-> ""]

(***************************************************************************)
(* Point access: get and at.                                               *)
(***************************************************************************)
\* the getter cacheHitRatio, as the fraction << numerator, denominator >>
cacheHitRatio(s) ==
  IF s.cacheMisses + s.cacheHits = 0 THEN << 0, 1 >>
  ELSE << s.cacheHits, s.cacheMisses + s.cacheHits >>

\* hits / (hits + misses) < resizeCacheHitThreshold, the threshold a fraction
HitRatioBelowThreshold(s) ==
  LET totalCacheChecks == s.cacheMisses + s.cacheHits
      ratioNum == IF totalCacheChecks = 0 THEN 0 ELSE s.cacheHits
      ratioDen == IF totalCacheChecks = 0 THEN 1 ELSE totalCacheChecks
  IN ratioNum * cfg.resizeCacheHitThreshold[2]
       < cfg.resizeCacheHitThreshold[1] * ratioDen

\* the resize test without the warm-up count
ShouldResizeBeforeWarmUp(s) ==
  /\ cfg.enableCheckpointDownsizing
  /\ HitRatioBelowThreshold(s)
  /\ s.elementsPerCheckpoint # cfg.minElementsPerCheckpoint

ShouldResize(s) ==
  /\ cfg.enableCheckpointDownsizing
  /\ s.cacheHits + s.cacheMisses > cfg.minAccessesBeforeDownsizing
  /\ HitRatioBelowThreshold(s)
  /\ s.elementsPerCheckpoint # cfg.minElementsPerCheckpoint

HalvedStride(s) ==
  Max(cfg.minElementsPerCheckpoint, s.elementsPerCheckpoint \div 2)

\* the tail of get: read one checkpoint interval and make it the resident chunk
ReadChunk(s, checkpointIdx, offset) ==
  IF checkpointIdx >= Len(s.checkpoints)
  THEN [s |-> s, ret |-> RetError("TypeError")]
  ELSE LET skipToByte == s.checkpoints[checkpointIdx + 1].byte
           readUntilByte == IF checkpointIdx + 1 < Len(s.checkpoints)
                            THEN s.checkpoints[checkpointIdx + 2].byte - 1
                            ELSE -1
       IN IF readUntilByte # -1 /\ readUntilByte < skipToByte
          THEN [s |-> s, ret |-> RetError("RangeError")]
          ELSE LET array == ParseAll(getLines(
                              ReadStream(s.file, skipToByte, readUntilByte),
                              cfg.delimiter, cfg.skipHeader))
               IN IF HasParseError(array)
                  THEN [s |-> s, ret |-> RetError("SyntaxError")]
                  ELSE [s |-> [s EXCEPT !.cachedChunk =
                                  [idx |-> checkpointIdx, data |-> array]],
                        ret |-> RetValue(JsAt(array, offset))]

\* the rest of get after the rebuild that ended in built = [s, err]:
\* checkpointIdx and offset are still those of the stride before
AfterRebuild(built, idx, checkpointIdx, offset) ==
  IF built.err # "" THEN [s |-> built.s, ret |-> RetError(built.err)]
  ELSE IF built.s.cachedChunk.idx = checkpointIdx
       THEN [s |-> built.s,
             ret |-> RetValue(JsAt(built.s.cachedChunk.data, offset))]
       ELSE ReadChunk(built.s, idx \div built.s.elementsPerCheckpoint,
                      idx % built.s.elementsPerCheckpoint)

\* the stride shrink of get, then the rest of get against the new stride
ResizeAndRead(s, idx, checkpointIdx, offset) ==
  AfterRebuild(
    generateCheckpoints([s EXCEPT !.elementsPerCheckpoint = HalvedStride(s),
                                  !.cacheMisses = 0, !.cacheHits = 0],
                        idx),
    idx, checkpointIdx, offset)

get(s, idx) ==
  IF ~s.ready THEN [s |-> s, ret |-> RetError(NOT_READY_ERROR)]
  ELSE IF idx >= s.arrayLength \/ idx < 0 THEN [s |-> s, ret |-> RetUndefined]
  ELSE
    LET checkpointIdx == idx \div s.elementsPerCheckpoint
        offset == idx % s.elementsPerCheckpoint
    IN IF s.cachedChunk.idx = checkpointIdx
       THEN [s |-> [s EXCEPT !.cacheHits = @ + 1],
             ret |-> RetValue(JsAt(s.cachedChunk.data, offset))]
       ELSE IF isFullyInMemory(s)
       THEN [s |-> s, ret |-> RetError("FullyInMemoryError")]
       ELSE LET s1 == [s EXCEPT !.cacheMisses = @ + 1]
            IN IF isIndexInPushBuffer(s1, idx)
               THEN [s |-> s1,
                     ret |-> RetValue(JsAt(s1.pushedValuesBuffer,
                               idx - (s1.arrayLength - Len(s1.pushedValuesBuffer))))]
               ELSE IF ShouldResize(s1)
                    THEN ResizeAndRead(s1, idx, checkpointIdx, offset)
                    ELSE ReadChunk(s1, checkpointIdx, offset)

\* at handing a negative index to get as it is
atWithoutWrap(s, index) ==
  IF ~s.ready THEN [s |-> s, ret |-> RetError(NOT_READY_ERROR)]
  ELSE IF index >= s.arrayLength \/ index < -s.arrayLength
       THEN [s |-> s, ret |-> RetUndefined]
       ELSE get(s, index)

\* at without the test for an initialised instance
atUninitialised(s, index) ==
  IF index >= s.arrayLength \/ index < -s.arrayLength
  THEN [s |-> s, ret |-> RetUndefined]
  ELSE IF index < 0 THEN get(s, index + s.arrayLength)
       ELSE get(s, index)

at(s, index) ==
  IF ~s.ready THEN [s |-> s, ret |-> RetError(NOT_READY_ERROR)]
  ELSE IF index >= s.arrayLength \/ index < -s.arrayLength
       THEN [s |-> s, ret |-> RetUndefined]
       ELSE IF index < 0 THEN get(s, index + s.arrayLength)
            ELSE get(s, index)

(***************************************************************************)
(* InfinarrayView: a view over the instance with the mapping function      *)
(* row => row + 1.                                                         *)
(***************************************************************************)
mapFn(row) == row + 1

\* the getter length of the view
viewLength(s) == s.arrayLength

\* what the view makes of the result of materialArray.at
Mapped(r) ==
  [s |-> r.s,
   ret |-> IF r.ret.kind = "value" THEN RetValue(mapFn(r.ret.val)) ELSE r.ret]

\* the view's at applying mapFn to whatever the array returned
viewAtOfAny(s, index) ==
  [s |-> at(s, index).s,
   ret |-> IF IsError(at(s, index).ret) THEN at(s, index).ret
           ELSE IF at(s, index).ret.kind = "value"
                THEN RetValue(mapFn(at(s, index).ret.val))
                ELSE RetValue(mapFn(0))]

viewAt(s, index) == Mapped(at(s, index))

(***************************************************************************)
(* Random sample cache.                                                    *)
(***************************************************************************)
\* the values Math.floor(randomFn() * n) can take for the configured source
RandomFloor(n) ==
  IF n <= 0 THEN {0}
  ELSE IF cfg.randomFn = "zero" THEN {0}
  ELSE IF cfg.randomFn = "high" THEN {n - 1}
  ELSE 0 .. (n - 1)

\* randomIdxs after the descending sort, listed in the order pop() yields them
RECURSIVE SortTargets(_)
SortTargets(targets) ==
  IF targets = {} THEN << >>
  ELSE LET m == CHOOSE x \in targets :
                  \A y \in targets :
                     \/ x.valIdx < y.valIdx
                     \/ (x.valIdx = y.valIdx /\ x.originalIdx >= y.originalIdx)
       IN << m >> \o SortTargets(targets \ {m})

\* the predicate handed to every(): st = [cache, k, tg], current = tg[k]
RECURSIVE SamplePredicate(_, _, _)
SamplePredicate(st, val, idx) ==
  IF st.k <= Len(st.tg) /\ idx = st.tg[st.k].valIdx
  THEN SamplePredicate(
         [st EXCEPT !.cache[st.tg[st.k].originalIdx + 1] =
                       [index |-> st.tg[st.k].valIdx, value |-> val],
                    !.k = @ + 1],
         val, idx)
  ELSE [st EXCEPT !.more = st.k < Len(st.tg)]

\* every() over the resident chunk: for i = idx; i < idx + data.length; i++
RECURSIVE EveryChunkLoop(_, _, _)
EveryChunkLoop(st, chunk, i) ==
  IF i >= chunk.idx + Len(chunk.data) THEN st
  ELSE LET st1 == SamplePredicate(st, JsAt(chunk.data, i), i)
       IN IF ~st1.more THEN st1 ELSE EveryChunkLoop(st1, chunk, i + 1)

\* every() over the whole file; stops at the first false or SyntaxError
RECURSIVE EveryStreamLoop(_, _, _, _)
EveryStreamLoop(st, lines, k, idx) ==
  IF k > Len(lines) THEN st
  ELSE LET parsed == ParseLine(lines[k].line)
       IN IF parsed = PARSE_ERROR THEN [st EXCEPT !.err = "SyntaxError"]
          ELSE LET st1 == SamplePredicate(st, parsed, idx)
               IN IF ~st1.more THEN st1
                  ELSE EveryStreamLoop(st1, lines, k + 1, idx + 1)

\* draws: the values of Math.floor(randomFn() * length), one per slot
generateRandomElementsCache(s0, draws) ==
  LET s == flushPushedValues(s0)
      size == s.randomSampleSize
      tg == SortTargets({[originalIdx |-> i - 1, valIdx |-> draws[i]] :
                           i \in 1 .. size})
      st0 == [cache |-> [i \in 1 .. size |-> Hole], k |-> 1, tg |-> tg,
              more |-> TRUE, err |-> ""]
      st1 == IF s.cachedChunk # NullChunk
             THEN EveryChunkLoop(st0, s.cachedChunk, s.cachedChunk.idx)
             ELSE st0
      st2 == IF s.cachedChunk # NullChunk /\ (~st1.more \/ isFullyInMemory(s))
             THEN st1
             ELSE EveryStreamLoop(
                    st1, getLines(ReadStream(s.file, 0, -1), cfg.delimiter,
                                  cfg.skipHeader), 1, 0)
  IN [s |-> [s EXCEPT !.randomElementsCache = st2.cache], err |-> st2.err]

\* the sequences of draws a (re)generation of the given size can make
DrawSeqs(size, length) == [1 .. size -> RandomFloor(length)]

(***************************************************************************)
(* init                                                                    *)
(***************************************************************************)
\* what a pass that ended in gen = [s, err] makes of its caller
Generated(gen) ==
  [s |-> gen.s, ret |-> IF gen.err # "" THEN RetError(gen.err) ELSE RetVoid]

\* the rest of init after the first pass ended in built = [s, err]
AfterFirstPass(built, draws) ==
  IF built.err # "" THEN [s |-> built.s, ret |-> RetError(built.err)]
  ELSE IF ~isFullyInMemory(built.s)
       THEN Generated(generateRandomElementsCache(
                        [built.s EXCEPT !.ready = TRUE], draws))
       ELSE [s |-> [built.s EXCEPT !.ready = TRUE], ret |-> RetVoid]

\* init without the test for an initialised instance
initAgain(s, draws) == AfterFirstPass(generateCheckpoints(s, 0), draws)

init(s, draws) ==
  IF s.ready THEN [s |-> s, ret |-> RetError("AlreadyInitialized")]
  ELSE AfterFirstPass(generateCheckpoints(s, 0), draws)

(***************************************************************************)
(* push                                                                    *)
(***************************************************************************)
\* an injection that gives every item the index of the first
RECURSIVE InjectLoopOneIndex(_, _, _, _, _)
InjectLoopOneIndex(cache, items, rands, j, length) ==
  IF j >= Len(items) THEN cache
  ELSE InjectLoopOneIndex(
         IF rands[j + 1] < Len(cache)
         THEN [cache EXCEPT ![rands[j + 1] + 1] =
                 [index |-> length, value |-> items[j + 1]]]
         ELSE cache,
         items, rands, j + 1, length)

\* reservoir injection of the pushed items; rands[j] = floor(randomFn() * (L + j))
RECURSIVE InjectLoop(_, _, _, _, _)
InjectLoop(cache, items, rands, j, length) ==
  IF j >= Len(items) THEN cache
  ELSE InjectLoop(
         IF rands[j + 1] < Len(cache)
         THEN [cache EXCEPT ![rands[j + 1] + 1] =
                 [index |-> length + j, value |-> items[j + 1]]]
         ELSE cache,
         items, rands, j + 1, length)

\* the while loop filling the resident chunk
RECURSIVE FillChunk(_, _, _, _)
FillChunk(data, items, i, epc) ==
  IF i < Len(items) /\ Len(data) < epc
  THEN FillChunk(Append(data, items[i + 1]), items, i + 1, epc)
  ELSE data

\* push returning the length it read before adding the items
pushStaleLength(s, items, rands) ==
  IF cfg.readonly THEN [s |-> s, ret |-> RetError("ReadOnlyError")]
  ELSE IF ~s.ready THEN [s |-> s, ret |-> RetError(NOT_READY_ERROR)]
  ELSE [s |-> [s EXCEPT !.pushedValuesBuffer = @ \o items,
                        !.arrayLength = @ + Len(items)],
        ret |-> RetNumber(s.arrayLength)]

\* push without the test for a read-only instance
pushWritable(s, items, rands) ==
  IF ~s.ready THEN [s |-> s, ret |-> RetError(NOT_READY_ERROR)]
  ELSE [s |-> [flushPushedValues([s EXCEPT !.pushedValuesBuffer = @ \o items])
                 EXCEPT !.arrayLength = @ + Len(items)],
        ret |-> RetNumber(s.arrayLength + Len(items))]

\* push flushing as soon as the pending values reach the maximum
pushFlushAtLimit(s, items, rands) ==
  IF cfg.readonly THEN [s |-> s, ret |-> RetError("ReadOnlyError")]
  ELSE IF ~s.ready THEN [s |-> s, ret |-> RetError(NOT_READY_ERROR)]
  ELSE
    [s |-> [(IF Len(s.pushedValuesBuffer) + Len(items)
                  >= cfg.maxPushedValuesBufferSize
             THEN flushPushedValues([s EXCEPT !.pushedValuesBuffer = @ \o items])
             ELSE [s EXCEPT !.pushedValuesBuffer = @ \o items])
              EXCEPT !.arrayLength = @ + Len(items)],
     ret |-> RetNumber(s.arrayLength + Len(items))]

push(s, items, rands) ==
  IF cfg.readonly THEN [s |-> s, ret |-> RetError("ReadOnlyError")]
  ELSE IF ~s.ready THEN [s |-> s, ret |-> RetError(NOT_READY_ERROR)]
  ELSE
    LET s1 == [s EXCEPT !.pushedValuesBuffer = @ \o items]
        s2 == IF Len(s1.pushedValuesBuffer) > cfg.maxPushedValuesBufferSize
              THEN flushPushedValues(s1) ELSE s1
        s3 == [s2 EXCEPT !.randomElementsCache =
                 InjectLoop(@, items, rands, 0, s2.arrayLength)]
        s4 == IF s3.cachedChunk.idx = Len(s3.checkpoints) - 1
              THEN [s3 EXCEPT !.cachedChunk.data =
                      FillChunk(@, items, 0, s3.elementsPerCheckpoint)]
              ELSE s3
        s5 == [s4 EXCEPT !.arrayLength = @ + Len(items)]
    IN [s |-> s5, ret |-> RetNumber(s5.arrayLength)]

\* the draws of one push: one per item, over the growing population
PushRands(items, length) ==
  {r \in [1 .. Len(items) -> 0 .. (length + Len(items))] :
     \A j \in 1 .. Len(items) : r[j] \in RandomFloor(length + j - 1)}

(***************************************************************************)
(* Index normalisation (infinarray-base.ts).                               *)
(***************************************************************************)
clampIndex(index, length) ==
  IF -length <= index /\ index < 0 THEN index + length
  ELSE IF index < -length THEN 0
  ELSE IF index >= length THEN UNDEFINED
  ELSE index

(***************************************************************************)
(* slice                                                                   *)
(***************************************************************************)
\* Array.prototype.slice with non-negative bounds
JsSlice(array, from, to) == Subarray(array, from, to)

\* the write callback of the streamed slice: acc = [list, err]
RECURSIVE SliceLoop(_, _, _, _, _, _)
SliceLoop(acc, lines, k, idx, startIdx, endIdx) ==
  IF k > Len(lines) \/ acc.err # "" THEN acc
  ELSE IF idx >= startIdx /\ idx < endIdx
       THEN LET parsed == ParseLine(lines[k].line)
            IN IF parsed = PARSE_ERROR
               THEN [acc EXCEPT !.err = "SyntaxError"]
               ELSE SliceLoop([acc EXCEPT !.list = Append(@, parsed)],
                              lines, k + 1, idx + 1, startIdx, endIdx)
       ELSE SliceLoop(acc, lines, k + 1, idx + 1, startIdx, endIdx)

slice(s0, start, end) ==
  IF ~s0.ready THEN [s |-> s0, ret |-> RetError(NOT_READY_ERROR)]
  ELSE
    LET s == flushPushedValues(s0)
        startIdx == clampIndex(start, s.arrayLength)
        endIdx == IF end >= s.arrayLength THEN s.arrayLength
                  ELSE clampIndex(end, s.arrayLength)
    IN IF startIdx = UNDEFINED \/ endIdx = UNDEFINED \/ endIdx <= startIdx
       THEN [s |-> s, ret |-> RetList(<< >>)]
       ELSE IF /\ s.cachedChunk # NullChunk
               /\ s.cachedChunk.idx <= startIdx
               /\ endIdx < s.cachedChunk.idx + s.elementsPerCheckpoint
       THEN [s |-> s,
             ret |-> RetList(JsSlice(s.cachedChunk.data,
                                     startIdx - s.cachedChunk.idx,
                                     endIdx - s.cachedChunk.idx))]
       ELSE LET cp == startIdx \div s.elementsPerCheckpoint
            IN IF cp >= Len(s.checkpoints)
               THEN [s |-> s, ret |-> RetError("TypeError")]
               ELSE LET startCheckpoint == s.checkpoints[cp + 1]
                        acc == SliceLoop(
                                 [list |-> << >>, err |-> ""],
                                 getLines(ReadStream(s.file, startCheckpoint.byte, -1),
                                          cfg.delimiter, cfg.skipHeader),
                                 1, startCheckpoint.index, startIdx, endIdx)
                    IN [s |-> s,
                        ret |-> IF acc.err # "" THEN RetError(acc.err)
                                ELSE RetList(acc.list)]

(***************************************************************************)
(* findFirstEntry.  A predicate is the set of values it accepts.           *)
(***************************************************************************)
\* the fully resident scan: for i = startIndex; i < data.length; i++
RECURSIVE FindInChunk(_, _, _)
FindInChunk(data, i, predicate) ==
  IF i >= Len(data) THEN RetUndefined
  ELSE IF data[i + 1] \in predicate THEN RetEntry(i, data[i + 1])
       ELSE FindInChunk(data, i + 1, predicate)

\* the write callback of the streamed scan up to the first match:
\* the result is [k, ret], k the position of the matching line (0: none)
RECURSIVE FindLoop(_, _, _, _, _)
FindLoop(lines, k, idx, startIndex, predicate) ==
  IF k > Len(lines) THEN [k |-> 0, ret |-> RetUndefined]
  ELSE IF idx >= startIndex
       THEN LET parsed == ParseLine(lines[k].line)
            IN IF parsed = PARSE_ERROR
               THEN [k |-> 0, ret |-> RetError("SyntaxError")]
               ELSE IF parsed \in predicate
                    THEN [k |-> k, ret |-> RetEntry(idx, parsed)]
                    ELSE FindLoop(lines, k + 1, idx + 1, startIndex, predicate)
       ELSE FindLoop(lines, k + 1, idx + 1, startIndex, predicate)

\* the matching record is the one the tokenizer emits from flush(), at the
\* end of the stream: the pipeline can then finish in the same turn of the
\* event loop, before the setImmediate that carries the abort
MatchAtStreamEnd(bytes, lines, k) ==
  /\ k = Len(lines)
  /\ Len(bytes) > 0
  /\ bytes[Len(bytes)] # cfg.delimiter

\* endFirst: the pipeline resolved before the scheduled abort ran
findFirstEntry(s0, predicate, fromIndex, endFirst) ==
  IF ~s0.ready THEN [s |-> s0, ret |-> RetError(NOT_READY_ERROR)]
  ELSE
    LET s == flushPushedValues(s0)
        startIndex == Max(0, fromIndex)
    IN IF fromIndex >= s.arrayLength THEN [s |-> s, ret |-> RetUndefined]
       ELSE IF isFullyInMemory(s) /\ s.cachedChunk # NullChunk
       THEN [s |-> s, ret |-> FindInChunk(s.cachedChunk.data, startIndex, predicate)]
       ELSE LET cp == startIndex \div s.elementsPerCheckpoint
            IN IF cp >= Len(s.checkpoints)
               THEN [s |-> s, ret |-> RetError("TypeError")]
               ELSE LET startCheckpoint == s.checkpoints[cp + 1]
                        bytes == ReadStream(s.file, startCheckpoint.byte, -1)
                        lines == getLines(bytes, cfg.delimiter, cfg.skipHeader)
                        found == FindLoop(lines, 1, startCheckpoint.index,
                                          startIndex, predicate)
                    IN IF /\ found.ret.kind = "entry"
                          /\ endFirst
                          /\ MatchAtStreamEnd(bytes, lines, found.k)
                       THEN [s |-> s, ret |-> RetUndefined]
                       ELSE [s |-> s, ret |-> found.ret]

(***************************************************************************)
(* The searches built on findFirstEntry, and findLastEntry.                *)
(***************************************************************************)
\* (entry)?.value and (entry)?.index ?? -1; a thrown error passes through
EntryValue(r) == IF r.kind = "entry" THEN RetValue(r.val) ELSE r
EntryIndex(r) ==
  IF r.kind = "entry" THEN RetNumber(r.index)
  ELSE IF r.kind = "undefined" THEN RetNumber(-1) ELSE r
\* (result) != null
NotNull(r) ==
  IF r.kind \in {"entry", "value"} THEN RetBoolean(TRUE)
  ELSE IF r.kind = "undefined" THEN RetBoolean(FALSE) ELSE r
\* the same, applied to what an operation left: r = [s, ret]
ValueOf(r) == [s |-> r.s, ret |-> EntryValue(r.ret)]
IndexIn(r) == [s |-> r.s, ret |-> EntryIndex(r.ret)]
Found(r) == [s |-> r.s, ret |-> NotNull(r.ret)]

find(s, predicate, endFirst) ==
  IF ~s.ready THEN [s |-> s, ret |-> RetError(NOT_READY_ERROR)]
  ELSE ValueOf(findFirstEntry(s, predicate, 0, endFirst))

findIndex(s, predicate, endFirst) ==
  IF ~s.ready THEN [s |-> s, ret |-> RetError(NOT_READY_ERROR)]
  ELSE IndexIn(findFirstEntry(s, predicate, 0, endFirst))

some(s, predicate, endFirst) ==
  IF ~s.ready THEN [s |-> s, ret |-> RetError(NOT_READY_ERROR)]
  ELSE Found(find(s, predicate, endFirst))

\* the resident scan: for i = 0; i < data.length; i++, keeping the last match
RECURSIVE LastInChunk(_, _, _, _)
LastInChunk(data, i, predicate, entry) ==
  IF i >= Len(data) THEN entry
  ELSE LastInChunk(data, i + 1, predicate,
                   IF data[i + 1] \in predicate THEN RetEntry(i, data[i + 1])
                   ELSE entry)

\* the write callback over the whole file, idx counted from 0
RECURSIVE LastLoop(_, _, _, _)
LastLoop(lines, k, predicate, entry) ==
  IF k > Len(lines) THEN entry
  ELSE LET parsed == ParseLine(lines[k].line)
       IN IF parsed = PARSE_ERROR THEN RetError("SyntaxError")
          ELSE LastLoop(lines, k + 1, predicate,
                        IF parsed \in predicate THEN RetEntry(k - 1, parsed)
                        ELSE entry)

findLastEntry(s0, predicate) ==
  IF ~s0.ready THEN [s |-> s0, ret |-> RetError(NOT_READY_ERROR)]
  ELSE
    LET s == flushPushedValues(s0)
    IN IF isFullyInMemory(s) /\ s.cachedChunk # NullChunk
       THEN [s |-> s,
             ret |-> LastInChunk(s.cachedChunk.data, 0, predicate, RetUndefined)]
       ELSE [s |-> s,
             ret |-> LastLoop(getLines(ReadStream(s.file, 0, -1), cfg.delimiter,
                                       cfg.skipHeader),
                              1, predicate, RetUndefined)]

findLast(s, predicate) ==
  IF ~s.ready THEN [s |-> s, ret |-> RetError(NOT_READY_ERROR)]
  ELSE ValueOf(findLastEntry(s, predicate))

findLastIndex(s, predicate) ==
  IF ~s.ready THEN [s |-> s, ret |-> RetError(NOT_READY_ERROR)]
  ELSE IndexIn(findLastEntry(s, predicate))

\* includes handing fromIndex to findFirstEntry without normalising it
includesWithoutClamp(s, searchElement, fromIndex, endFirst) ==
  IF ~s.ready THEN [s |-> s, ret |-> RetError(NOT_READY_ERROR)]
  ELSE Found(findFirstEntry(s, {searchElement}, fromIndex, endFirst))

\* the predicate of includes and of indexOf accepts the one value searched
includes(s, searchElement, fromIndex, endFirst) ==
  IF ~s.ready THEN [s |-> s, ret |-> RetError(NOT_READY_ERROR)]
  ELSE LET from == clampIndex(fromIndex, s.arrayLength)
       IN IF from = UNDEFINED THEN [s |-> s, ret |-> RetBoolean(FALSE)]
          ELSE Found(findFirstEntry(s, {searchElement}, from, endFirst))

indexOf(s, searchElement, fromIndex, endFirst) ==
  IF ~s.ready THEN [s |-> s, ret |-> RetError(NOT_READY_ERROR)]
  ELSE LET from == clampIndex(fromIndex, s.arrayLength)
       IN IF from = UNDEFINED THEN [s |-> s, ret |-> RetNumber(-1)]
          ELSE IndexIn(findFirstEntry(s, {searchElement}, from, endFirst))

(***************************************************************************)
(* every, filter, forEach, map.  A predicate is the set of the values it   *)
(* accepts, undefined among them or not.                                   *)
(***************************************************************************)
\* the calls predicate(data[i], i) of the resident loop of every:
\* for i = idx; i < idx + data.length; i++, up to the first rejected one
RECURSIVE EveryInChunk(_, _, _, _)
EveryInChunk(calls, chunk, i, predicate) ==
  IF i >= chunk.idx + Len(chunk.data)
  THEN [calls |-> calls, ok |-> TRUE, err |-> ""]
  ELSE LET call == [value |-> JsAt(chunk.data, i), index |-> i]
       IN IF call.value \in predicate
          THEN EveryInChunk(Append(calls, call), chunk, i + 1, predicate)
          ELSE [calls |-> Append(calls, call), ok |-> FALSE, err |-> ""]

\* a streamed pass whose catch rethrows the abort it scheduled itself
RECURSIVE EveryInStreamRethrowing(_, _, _, _)
EveryInStreamRethrowing(calls, lines, k, predicate) ==
  IF k > Len(lines) THEN [calls |-> calls, ok |-> TRUE, err |-> ""]
  ELSE LET parsed == ParseLine(lines[k].line)
           call == [value |-> parsed, index |-> k - 1]
       IN IF parsed = PARSE_ERROR
          THEN [calls |-> calls, ok |-> FALSE, err |-> "SyntaxError"]
          ELSE IF parsed \in predicate
               THEN EveryInStreamRethrowing(Append(calls, call), lines, k + 1,
                                            predicate)
               ELSE [calls |-> Append(calls, call), ok |-> FALSE,
                     err |-> "AbortError"]

\* the calls predicate(parsed, idx) of the streamed pass of every
RECURSIVE EveryInStream(_, _, _, _)
EveryInStream(calls, lines, k, predicate) ==
  IF k > Len(lines) THEN [calls |-> calls, ok |-> TRUE, err |-> ""]
  ELSE LET parsed == ParseLine(lines[k].line)
           call == [value |-> parsed, index |-> k - 1]
       IN IF parsed = PARSE_ERROR
          THEN [calls |-> calls, ok |-> FALSE, err |-> "SyntaxError"]
          ELSE IF parsed \in predicate
               THEN EveryInStream(Append(calls, call), lines, k + 1, predicate)
               ELSE [calls |-> Append(calls, call), ok |-> FALSE, err |-> ""]

\* calls: the predicate invocations made, in order
every(s0, predicate) ==
  IF ~s0.ready
  THEN [s |-> s0, ret |-> RetError(NOT_READY_ERROR), calls |-> << >>]
  ELSE
    LET s == flushPushedValues(s0)
        resident == IF s.cachedChunk # NullChunk
                    THEN EveryInChunk(<< >>, s.cachedChunk, s.cachedChunk.idx,
                                      predicate)
                    ELSE [calls |-> << >>, ok |-> TRUE, err |-> ""]
    IN IF ~resident.ok
       THEN [s |-> s, ret |-> RetBoolean(FALSE), calls |-> resident.calls]
       ELSE IF s.cachedChunk # NullChunk /\ isFullyInMemory(s)
       THEN [s |-> s, ret |-> RetBoolean(TRUE), calls |-> resident.calls]
       ELSE LET streamed == EveryInStream(
                              resident.calls,
                              getLines(ReadStream(s.file, 0, -1), cfg.delimiter,
                                       cfg.skipHeader),
                              1, predicate)
            IN [s |-> s,
                ret |-> IF streamed.err # "" THEN RetError(streamed.err)
                        ELSE RetBoolean(streamed.ok),
                calls |-> streamed.calls]

\* the accepted elements of a decoded sequence, or a SyntaxError
RECURSIVE FilterLoop(_, _, _, _)
FilterLoop(acc, values, k, predicate) ==
  IF k > Len(values) THEN RetList(acc)
  ELSE IF values[k] = PARSE_ERROR THEN RetError("SyntaxError")
       ELSE FilterLoop(IF values[k] \in predicate THEN Append(acc, values[k])
                       ELSE acc,
                       values, k + 1, predicate)

filter(s0, predicate) ==
  IF ~s0.ready THEN [s |-> s0, ret |-> RetError(NOT_READY_ERROR)]
  ELSE
    LET s == flushPushedValues(s0)
    IN IF isFullyInMemory(s) /\ s.cachedChunk # NullChunk
       THEN [s |-> s, ret |-> FilterLoop(<< >>, s.cachedChunk.data, 1, predicate)]
       ELSE [s |-> s,
             ret |-> FilterLoop(<< >>,
                                ParseAll(getLines(ReadStream(s.file, 0, -1),
                                                  cfg.delimiter, cfg.skipHeader)),
                                1, predicate)]

\* the values the callback of forEach is called with, in order.  The read
\* stream is piped into the tokenizer by pipe() and again by pipeline():
\* twice says that every chunk read reaches the tokenizer two times
forEach(s0, twice) ==
  IF ~s0.ready THEN [s |-> s0, ret |-> RetError(NOT_READY_ERROR)]
  ELSE
    LET s == flushPushedValues(s0)
        bytes == ReadStream(s.file, 0, -1)
        visited == ParseAll(getLines(IF twice THEN bytes \o bytes ELSE bytes,
                                     cfg.delimiter, cfg.skipHeader))
    IN IF isFullyInMemory(s) /\ s.cachedChunk # NullChunk
       THEN [s |-> s, ret |-> Ret("void", 0, 0, s.cachedChunk.data)]
       ELSE [s |-> s,
             ret |-> IF HasParseError(visited) THEN RetError("SyntaxError")
                     ELSE Ret("void", 0, 0, visited)]

\* InfinarrayView.forEach calls materialArray.forEach with the callback
\* (value, index) => callbackfn(mapFn(value), index, this) and returns
\* without awaiting or returning the promise it gets.
\* the scan of the array as the view leaves it: how it ended, and the values
\* the view's callback was called with
Settled(r) ==
  [phase |-> "settled",
   seen |-> IF IsError(r) THEN << >>
            ELSE [k \in 1 .. Len(r.list) |-> mapFn(r.list[k])],
   failure |-> IF IsError(r) THEN r.kind ELSE ""]
Pending == [phase |-> "pending", seen |-> << >>, failure |-> ""]

\* the array's forEach ends before the caller of the view's forEach goes on:
\* it throws at its first statement, or its await of flushPushedValues has
\* nothing to flush and the loop over the resident chunk follows in the
\* microtask queued ahead of the caller's continuation
forEachEndsAtOnce(s) ==
  \/ ~s.ready
  \/ /\ Len(s.pushedValuesBuffer) = 0
     /\ isFullyInMemory(s)
     /\ s.cachedChunk # NullChunk

\* the promise of the view's forEach resolves with undefined
viewForEach(s, twice) ==
  IF forEachEndsAtOnce(s)
  THEN [s |-> forEach(s, twice).s, ret |-> RetVoid,
        scan |-> Settled(forEach(s, twice).ret)]
  ELSE [s |-> s, ret |-> RetVoid, scan |-> Pending]

\* the bytes written to the other file: stringifyFn(callbackfn(v)) followed
\* by the delimiter, for every record; the callback adds one
RECURSIVE MapLoop(_, _, _)
MapLoop(out, values, k) ==
  IF k > Len(values) THEN Ret("void", 0, 0, out)
  ELSE IF values[k] = PARSE_ERROR THEN RetError("SyntaxError")
       ELSE MapLoop(out \o Stringify(values[k] + 1) \o << cfg.delimiter >>,
                    values, k + 1)

\* map reading the file without flushing the pending values first
mapWithoutFlush(s0) ==
  IF ~s0.ready THEN [s |-> s0, ret |-> RetError(NOT_READY_ERROR)]
  ELSE [s |-> s0,
        ret |-> MapLoop(<< >>,
                        ParseAll(getLines(ReadStream(s0.file, 0, -1),
                                          cfg.delimiter, cfg.skipHeader)),
                        1)]

map(s0) ==
  IF ~s0.ready THEN [s |-> s0, ret |-> RetError(NOT_READY_ERROR)]
  ELSE
    LET s == flushPushedValues(s0)
    IN [s |-> s,
        ret |-> MapLoop(<< >>,
                        ParseAll(getLines(ReadStream(s.file, 0, -1),
                                          cfg.delimiter, cfg.skipHeader)),
                        1)]

(***************************************************************************)
(* sampleEntry                                                             *)
(***************************************************************************)
\* randomElementsCache.pop()
PopEntry(s) ==
  LET n == Len(s.randomElementsCache)
  IN IF n = 0 THEN [s |-> s, ret |-> RetUndefined]
     ELSE [s |-> [s EXCEPT !.randomElementsCache = SubSeq(@, 1, n - 1)],
           ret |-> IF s.randomElementsCache[n] = Hole THEN RetUndefined
                   ELSE RetEntry(s.randomElementsCache[n].index,
                                 s.randomElementsCache[n].value)]

\* pop() after a regeneration that ended in gen = [s, err]
PopGenerated(gen) ==
  IF gen.err # "" THEN [s |-> gen.s, ret |-> RetError(gen.err)]
  ELSE PopEntry(gen.s)

\* the values sampleIndex() can return
sampleIndex(s) ==
  IF s.arrayLength = 0 THEN {-1} ELSE RandomFloor(s.arrayLength)

\* sampleEntry without the test for an empty array
sampleEntryOfAny(s, index, draws) ==
  IF ~s.ready THEN [s |-> s, ret |-> RetError(NOT_READY_ERROR)]
  ELSE IF isFullyInMemory(s) /\ s.cachedChunk # NullChunk
  THEN [s |-> s, ret |-> RetEntry(index, JsAt(s.cachedChunk.data, index))]
  ELSE PopEntry(s)

\* sampleEntry regenerating an empty cache at the size it had
sampleEntryOfOneSize(s, index, draws) ==
  IF ~s.ready THEN [s |-> s, ret |-> RetError(NOT_READY_ERROR)]
  ELSE IF s.arrayLength = 0 THEN [s |-> s, ret |-> RetUndefined]
  ELSE IF isFullyInMemory(s) /\ s.cachedChunk # NullChunk
  THEN [s |-> s, ret |-> RetEntry(index, JsAt(s.cachedChunk.data, index))]
  ELSE IF Len(s.randomElementsCache) = 0
       THEN PopGenerated(generateRandomElementsCache(s, draws))
       ELSE PopEntry(s)

\* index: the value of sampleIndex(); draws: those of a regeneration
sampleEntry(s, index, draws) ==
  IF ~s.ready THEN [s |-> s, ret |-> RetError(NOT_READY_ERROR)]
  ELSE IF s.arrayLength = 0 THEN [s |-> s, ret |-> RetUndefined]
  ELSE IF isFullyInMemory(s) /\ s.cachedChunk # NullChunk
  THEN [s |-> s, ret |-> RetEntry(index, JsAt(s.cachedChunk.data, index))]
  ELSE IF Len(s.randomElementsCache) = 0
       THEN PopGenerated(generateRandomElementsCache(
                           [s EXCEPT !.randomSampleSize =
                              Min(@ * 2, cfg.maxRandomElementsCacheSize)],
                           draws))
       ELSE PopEntry(s)

sampleValue(s, index, draws) == ValueOf(sampleEntry(s, index, draws))

(***************************************************************************)
(* The conditions under which an operation reaches its createReadStream.   *)
(***************************************************************************)
\* get: a miss that is not answered from the push buffer
atReadsFile(s, index) ==
  /\ s.ready
  /\ index < s.arrayLength
  /\ index >= -s.arrayLength
  /\ s.cachedChunk.idx
       # (IF index < 0 THEN index + s.arrayLength ELSE index)
           \div s.elementsPerCheckpoint
  /\ ~isFullyInMemory(s)
  /\ ~isIndexInPushBuffer(
        s, IF index < 0 THEN index + s.arrayLength ELSE index)

\* every: the pass over the resident chunk found no false predicate and the
\* array is not wholly resident
everyReadsFile(s, predicate) ==
  /\ s.ready
  /\ s.cachedChunk # NullChunk
       => /\ EveryInChunk(<< >>, s.cachedChunk, s.cachedChunk.idx,
                          predicate).ok
          /\ ~isFullyInMemory(s)

\* filter, findLastEntry, forEach and map's source: not wholly resident
scanReadsFile(s) ==
  /\ s.ready
  /\ ~(isFullyInMemory(s) /\ s.cachedChunk # NullChunk)

findFirstEntryReadsFile(s, fromIndex) ==
  /\ s.ready
  /\ fromIndex < s.arrayLength
  /\ ~(isFullyInMemory(s) /\ s.cachedChunk # NullChunk)

\* findFirstEntry when `later` records that follow the match are handed to
\* the write callback before the abort is delivered: the callback parses
\* each of them (idx >= startIndex holds) and, entry being set, tests none
findFirstEntryVisiting(s0, predicate, fromIndex, later, endFirst) ==
  LET r == findFirstEntry(s0, predicate, fromIndex, endFirst)
      startIndex == Max(0, fromIndex)
  IN IF r.ret.kind # "entry" \/ ~findFirstEntryReadsFile(r.s, fromIndex)
     THEN r
     ELSE LET startCheckpoint ==
                r.s.checkpoints[startIndex \div r.s.elementsPerCheckpoint + 1]
              lines == getLines(ReadStream(r.s.file, startCheckpoint.byte, -1),
                                cfg.delimiter, cfg.skipHeader)
              k == r.ret.index - startCheckpoint.index + 1
          IN IF \E j \in k + 1 .. Min(Len(lines), k + later) :
                  ParseLine(lines[j].line) = PARSE_ERROR
             THEN [s |-> r.s, ret |-> RetError("SyntaxError")]
             ELSE r

\* slice: a non-empty range that fails the resident-chunk test
sliceReadsFile(s, start, end) ==
  /\ s.ready
  /\ clampIndex(start, s.arrayLength) # UNDEFINED
  /\ (IF end >= s.arrayLength THEN s.arrayLength
      ELSE clampIndex(end, s.arrayLength)) # UNDEFINED
  /\ (IF end >= s.arrayLength THEN s.arrayLength
      ELSE clampIndex(end, s.arrayLength)) > clampIndex(start, s.arrayLength)
  /\ ~(/\ s.cachedChunk # NullChunk
       /\ s.cachedChunk.idx <= clampIndex(start, s.arrayLength)
       /\ (IF end >= s.arrayLength THEN s.arrayLength
           ELSE clampIndex(end, s.arrayLength))
            < s.cachedChunk.idx + s.elementsPerCheckpoint)

\* sampleEntry: a regeneration, which scans with every
sampleEntryReadsFile(s) ==
  /\ s.ready
  /\ s.arrayLength > 0
  /\ ~(isFullyInMemory(s) /\ s.cachedChunk # NullChunk)
  /\ Len(s.randomElementsCache) = 0

(***************************************************************************)
(* Construction: the options and the files of the model.                   *)
(***************************************************************************)
PushArgs == {<< 5 >>, << 16, 7 >>}
SliceBounds == {-5, -1, 0, 1, 2, 3, 5}
Predicates == {{9}, {5, 7}, {}}
FromIndexes == {-1, 0, 3}
FirstValue == 8
\* the numbers a record can hold
Numbers == 0 .. 99
\* predicates of every: v => typeof v === 'number', v => v !== 10
EveryPredicates == {Numbers, (Numbers \cup {UNDEFINED}) \ {FirstValue + 2}}
\* the values searched by includes and indexOf
SearchElements == {FirstValue, 5}
\* the fromIndex arguments of includes and indexOf over an array of length n
FromIndexesOf(n) == {0 - n, 1 - n, 0, n}

\* st = <<maxElementsPerCheckpoint, minElementsPerCheckpoint>>
Config(d, ro, st, bs, ds, ma) ==
  [delimiter |-> d,
   skipHeader |-> FALSE,
   readonly |-> ro,
   maxElementsPerCheckpoint |-> st[1],
   minElementsPerCheckpoint |-> st[2],
   maxRandomElementsCacheSize |-> 2,
   initRandomElementsCacheSize |-> 1,
   maxPushedValuesBufferSize |-> bs,
   enableCheckpointDownsizing |-> ds,
   minAccessesBeforeDownsizing |-> ma,
   resizeCacheHitThreshold |-> << 1, 2 >>,
   randomFn |-> "zero"]

\* the instances of the model:
\* writable, flushed on request, downsizing from 2 to 1 after the second access
ManualFlushConfig == Config(NL, FALSE, << 2, 1 >>, MaxLength + 1, TRUE, 1)
\* writable, flushed by every push, downsizing from 3 to 2 at the first miss
AutoFlushConfig == Config(NL, FALSE, << 3, 2 >>, 0, TRUE, 0)
\* writable, the other delimiter, one checkpoint interval for the whole array
CommaConfig == Config(COMMA, FALSE, << 8, 8 >>, MaxLength + 1, FALSE, 1)
\* writable, the other delimiter, a fixed stride of 2
CommaStrideConfig == Config(COMMA, FALSE, << 2, 2 >>, MaxLength + 1, FALSE, 1)
\* writable, the other delimiter, downsizing from 2 to 1 at the first miss
CommaShrinkConfig == Config(COMMA, FALSE, << 2, 1 >>, MaxLength + 1, TRUE, 0)
\* read-only, downsizing from 3 to 2 after the second access
ReadonlyConfig == Config(NL, TRUE, << 3, 2 >>, MaxLength + 1, TRUE, 1)
\* read-only, downsizing from 3 to 2 at the first miss
EagerConfig == Config(NL, TRUE, << 3, 2 >>, MaxLength + 1, TRUE, 0)
\* writable, flushed by the push that takes the pending values above two
ThresholdConfig == Config(NL, FALSE, << 3, 2 >>, 2, TRUE, 1)
\* read-only, a fixed stride of 2, any outcome of the random source
RandomConfig ==
  [Config(NL, TRUE, << 2, 2 >>, MaxLength + 1, FALSE, 0)
     EXCEPT !.randomFn = "any"]
\* read-only, an initial sample size above the maximum
OversizedConfig ==
  [Config(NL, TRUE, << 2, 2 >>, MaxLength + 1, FALSE, 0)
     EXCEPT !.initRandomElementsCacheSize = 3]
\* read-only, a fixed stride of 2, the first record a header
HeaderConfig ==
  [Config(NL, TRUE, << 2, 2 >>, MaxLength + 1, FALSE, 0)
     EXCEPT !.skipHeader = TRUE]
\* read-only, stride 3 with floor 2, downsizing disabled
DisabledConfig == Config(NL, TRUE, << 3, 2 >>, MaxLength + 1, FALSE, 0)
\* read-only, stride 3 with floor 2, a threshold of 0
ZeroThresholdConfig ==
  [Config(NL, TRUE, << 3, 2 >>, MaxLength + 1, TRUE, 0)
     EXCEPT !.resizeCacheHitThreshold = << 0, 1 >>]
\* writable, a fixed stride of 1, a sample cache of 2, the random source
\* always 0, always just below 1, or any
InjectConfig(randomFn) ==
  [Config(NL, FALSE, << 1, 1 >>, MaxLength + 1, FALSE, 0)
     EXCEPT !.randomFn = randomFn, !.initRandomElementsCacheSize = 2]
\* read-only, the minimum above the maximum
InvertedConfig == Config(NL, TRUE, << 2, 3 >>, MaxLength + 1, TRUE, 0)
Configs ==
  {ManualFlushConfig, AutoFlushConfig, CommaConfig, ReadonlyConfig,
   EagerConfig, InvertedConfig}

\* n records FirstValue, FirstValue + 1, ... joined by the delimiter
RECURSIVE JoinRecords(_, _)
JoinRecords(values, delimiter) ==
  IF Len(values) = 0 THEN << >>
  ELSE IF Len(values) = 1 THEN Stringify(values[1])
       ELSE Stringify(values[1]) \o << delimiter >>
              \o JoinRecords(Tail(values), delimiter)

FileOf(n, trailing, delimiter) ==
  JoinRecords([i \in 1 .. n |-> FirstValue + i - 1], delimiter)
    \o (IF trailing THEN << delimiter >> ELSE << >>)

\* the files an instance is opened over: a writable one starts one record
\* short of the bound (it grows by push) and, unless it flushes on every
\* push, over a file that does not end with the delimiter
Files(c) ==
  {FileOf(n, trailing, c.delimiter) :
     n \in 0 .. (IF c.readonly THEN MaxRecords ELSE MaxRecords - 1),
     trailing \in IF c.readonly \/ c.maxPushedValuesBufferSize = 0
                  THEN BOOLEAN ELSE {FALSE}}

Op(name, index, end, items, predicate, flag) ==
  [name |-> name, index |-> index, end |-> end, items |-> items,
   predicate |-> predicate, flag |-> flag, length |-> arrayLength]

\* no stream under observation
NoStream ==
  [bytes |-> << >>, splitBuffer |-> << >>, skipFirstLine |-> FALSE,
   rest |-> << >>, t |-> TokInit(FALSE), chunks |-> 0, phase |-> "none"]

\* no scan started by a view
NoScan == [phase |-> "none", seen |-> << >>, failure |-> ""]

\* the state after new Infinarray(filePath, options)
Constructed(configs) ==
  /\ cfg \in configs
  /\ file \in Files(cfg)
  /\ ready = FALSE
  /\ elementsPerCheckpoint = cfg.maxElementsPerCheckpoint
  /\ checkpoints = << >>
  /\ cachedChunk = NullChunk
  /\ pushedValuesBuffer = << >>
  /\ arrayLength = 0
  /\ cacheHits = 0
  /\ cacheMisses = 0
  /\ randomElementsCache = << >>
  /\ randomSampleSize = cfg.initRandomElementsCacheSize
  /\ lastOp = [name |-> "new", index |-> 0, end |-> 0, items |-> << >>,
               predicate |-> {}, flag |-> FALSE, length |-> 0]
  /\ ret = RetVoid

InitWith(configs) ==
  stream = NoStream /\ viewScan = NoScan /\ Constructed(configs)

Init == InitWith(Configs)

(***************************************************************************)
(* Actions: one per public operation.                                      *)
(***************************************************************************)
\* the instance after a step that ended in r = [s, ret]
ApplyTo(r) ==
  /\ file' = r.s.file
  /\ ready' = r.s.ready
  /\ elementsPerCheckpoint' = r.s.elementsPerCheckpoint
  /\ checkpoints' = r.s.checkpoints
  /\ cachedChunk' = r.s.cachedChunk
  /\ pushedValuesBuffer' = r.s.pushedValuesBuffer
  /\ arrayLength' = r.s.arrayLength
  /\ cacheHits' = r.s.cacheHits
  /\ cacheMisses' = r.s.cacheMisses
  /\ randomElementsCache' = r.s.randomElementsCache
  /\ randomSampleSize' = r.s.randomSampleSize
  /\ ret' = r.ret
  /\ UNCHANGED << cfg, stream >>

\* the instance after an operation that ended in r = [s, ret]
Apply(r) == ApplyTo(r) /\ UNCHANGED viewScan

\* the stride the first pass runs with decides the length draws are made over
DoInit ==
  \E draws \in DrawSeqs(randomSampleSize,
                        generateCheckpoints(State, 0).s.arrayLength) :
    /\ lastOp' = Op("init", 0, 0, << >>, {}, FALSE)
    /\ \E r \in {init(State, draws)} : Apply(r)

At ==
  \E index \in (0 - arrayLength - 1) .. arrayLength :
    /\ cacheHits + cacheMisses < MaxAccesses
    /\ lastOp' = Op("at", index, 0, << >>, {}, FALSE)
    /\ \E r \in {at(State, index)} : Apply(r)

\* at called once more with the index of the at call before it
AtAgain ==
  /\ lastOp.name = "at"
  /\ cacheHits + cacheMisses < MaxAccesses + MaxRepeats
  /\ lastOp' = Op("at", lastOp.index, 0, << >>, {}, FALSE)
  /\ \E r \in {at(State, lastOp.index)} : Apply(r)

\* at of a view over the instance
ViewAt ==
  \E index \in (0 - arrayLength - 1) .. arrayLength :
    /\ cacheHits + cacheMisses < MaxAccesses
    /\ lastOp' = Op("view.at", index, 0, << >>, {}, FALSE)
    /\ \E r \in {viewAt(State, index)} : Apply(r)

Push ==
  \E items \in PushArgs :
    \E rands \in PushRands(items, arrayLength) :
      /\ arrayLength + Len(items) <= MaxLength
      /\ lastOp' = Op("push", 0, 0, items, {}, FALSE)
      /\ \E r \in {push(State, items, rands)} : Apply(r)

FlushPushedValues ==
  /\ lastOp' = Op("flushPushedValues", 0, 0, << >>, {}, FALSE)
  /\ \E s \in {flushPushedValues(State)} : Apply([s |-> s, ret |-> RetVoid])

SampleEntry ==
  \E index \in sampleIndex(State) :
    \E draws \in DrawSeqs(Min(randomSampleSize * 2, cfg.maxRandomElementsCacheSize),
                          arrayLength) :
      /\ lastOp' = Op("sampleEntry", index, 0, << >>, {}, FALSE)
      /\ \E r \in {sampleEntry(State, index, draws)} : Apply(r)

Slice ==
  \E start \in SliceBounds, end \in SliceBounds :
    /\ lastOp' = Op("slice", start, end, << >>, {}, FALSE)
    /\ \E r \in {slice(State, start, end)} : Apply(r)

\* slice() without arguments: start = 0, end = this.length
SliceAll ==
  /\ lastOp' = Op("slice", 0, arrayLength, << >>, {}, TRUE)
  /\ \E r \in {slice(State, 0, arrayLength)} : Apply(r)

FindFirstEntry ==
  \E predicate \in Predicates, fromIndex \in FromIndexes, endFirst \in BOOLEAN :
    /\ lastOp' = Op("findFirstEntry", fromIndex, 0, << >>, predicate, endFirst)
    /\ \E r \in {findFirstEntry(State, predicate, fromIndex, endFirst)} : Apply(r)

FindFirstEntryVisiting ==
  \E predicate \in Predicates, fromIndex \in FromIndexes,
     later \in 0 .. MaxRecords, endFirst \in BOOLEAN :
    /\ lastOp' = Op("findFirstEntry", fromIndex, later, << >>, predicate,
                    endFirst)
    /\ \E r \in {findFirstEntryVisiting(State, predicate, fromIndex, later,
                                        endFirst)} : Apply(r)

FindLastEntry ==
  \E predicate \in Predicates :
    /\ lastOp' = Op("findLastEntry", 0, 0, << >>, predicate, FALSE)
    /\ \E r \in {findLastEntry(State, predicate)} : Apply(r)

FindLast ==
  \E predicate \in Predicates :
    /\ lastOp' = Op("findLast", 0, 0, << >>, predicate, FALSE)
    /\ \E r \in {findLast(State, predicate)} : Apply(r)

FindLastIndex ==
  \E predicate \in Predicates :
    /\ lastOp' = Op("findLastIndex", 0, 0, << >>, predicate, FALSE)
    /\ \E r \in {findLastIndex(State, predicate)} : Apply(r)

Find ==
  \E predicate \in Predicates, endFirst \in BOOLEAN :
    /\ lastOp' = Op("find", 0, 0, << >>, predicate, endFirst)
    /\ \E r \in {find(State, predicate, endFirst)} : Apply(r)

FindIndex ==
  \E predicate \in Predicates, endFirst \in BOOLEAN :
    /\ lastOp' = Op("findIndex", 0, 0, << >>, predicate, endFirst)
    /\ \E r \in {findIndex(State, predicate, endFirst)} : Apply(r)

Some ==
  \E predicate \in Predicates, endFirst \in BOOLEAN :
    /\ lastOp' = Op("some", 0, 0, << >>, predicate, endFirst)
    /\ \E r \in {some(State, predicate, endFirst)} : Apply(r)

Includes ==
  \E searchElement \in SearchElements, fromIndex \in FromIndexesOf(arrayLength),
     endFirst \in BOOLEAN :
    /\ lastOp' = Op("includes", fromIndex, 0, << >>, {searchElement}, endFirst)
    /\ \E r \in {includes(State, searchElement, fromIndex, endFirst)} : Apply(r)

IndexOf ==
  \E searchElement \in SearchElements, fromIndex \in FromIndexesOf(arrayLength),
     endFirst \in BOOLEAN :
    /\ lastOp' = Op("indexOf", fromIndex, 0, << >>, {searchElement}, endFirst)
    /\ \E r \in {indexOf(State, searchElement, fromIndex, endFirst)} : Apply(r)

Every ==
  \E predicate \in EveryPredicates :
    /\ lastOp' = Op("every", 0, 0, << >>, predicate, FALSE)
    /\ \E r \in {every(State, predicate)} : Apply(r)

Filter ==
  \E predicate \in Predicates :
    /\ lastOp' = Op("filter", 0, 0, << >>, predicate, FALSE)
    /\ \E r \in {filter(State, predicate)} : Apply(r)

ForEach ==
  \E twice \in BOOLEAN :
    /\ lastOp' = Op("forEach", 0, 0, << >>, {}, twice)
    /\ \E r \in {forEach(State, twice)} : Apply(r)

\* forEach of a view over the instance, one scan in flight at a time
ViewForEach ==
  \E twice \in BOOLEAN :
    /\ viewScan.phase # "pending"
    /\ lastOp' = Op("view.forEach", 0, 0, << >>, {}, twice)
    /\ \E r \in {viewForEach(State, twice)} :
         ApplyTo(r) /\ viewScan' = r.scan

\* the scan the view started runs to its end; nothing receives its outcome
ViewScanEnds ==
  \E twice \in BOOLEAN :
    /\ viewScan.phase = "pending"
    /\ \E r \in {forEach(State, twice)} :
         /\ ApplyTo([s |-> r.s, ret |-> ret])
         /\ viewScan' = Settled(r.ret)
    /\ UNCHANGED lastOp

\* lastOp.items: the values that were pending when map was called
Map ==
  /\ lastOp' = Op("map", 0, 0, pushedValuesBuffer, {}, FALSE)
  /\ \E r \in {map(State)} : Apply(r)

SampleValue ==
  \E index \in sampleIndex(State) :
    \E draws \in DrawSeqs(Min(randomSampleSize * 2, cfg.maxRandomElementsCacheSize),
                          arrayLength) :
      /\ lastOp' = Op("sampleValue", index, 0, << >>, {}, FALSE)
      /\ \E r \in {sampleValue(State, index, draws)} : Apply(r)

Next ==
  \/ DoInit
  \/ At
  \/ Push
  \/ FlushPushedValues

Spec == Init /\ [][Next]_vars

\* slicing, on the read-only instance
NextSlice == Next \/ Slice \/ SliceAll
SpecSlice == InitWith({ReadonlyConfig}) /\ [][NextSlice]_vars

\* searching
NextFind == Next \/ FindFirstEntry
SpecFind == InitWith({ReadonlyConfig, AutoFlushConfig}) /\ [][NextFind]_vars

\* sampling
NextSample == Next \/ SampleEntry \/ SampleValue
SpecSample == Init /\ [][NextSample]_vars

\* sampling with any outcome of the random source
SpecRandom ==
  InitWith({RandomConfig, OversizedConfig}) /\ [][NextSample]_vars

\* reading a file whose first record is a header
NextHeader == Next \/ Slice \/ FindFirstEntry
SpecHeader == InitWith({HeaderConfig}) /\ [][NextHeader]_vars

\* point access through a view
NextView == Next \/ ViewAt
SpecView ==
  InitWith({ReadonlyConfig, ManualFlushConfig}) /\ [][NextView]_vars

\* scans through a view
NextViewScan == Next \/ ViewForEach \/ ViewScanEnds
SpecViewScan ==
  InitWith({ReadonlyConfig, ManualFlushConfig}) /\ [][NextViewScan]_vars

\* mapping into another file
NextMap == Next \/ Map
SpecMap ==
  InitWith({ReadonlyConfig, ManualFlushConfig, CommaConfig})
    /\ [][NextMap]_vars

\* the scans that stop early, over files that can hold an unparsable record
NextExit == Next \/ Every \/ FindFirstEntry \/ Slice \/ SliceAll
\* a writable instance one record short of the bound on the length
InitExit ==
  /\ InitWith({CommaStrideConfig})
  /\ file = FileOf(MaxRecords - 1, FALSE, cfg.delimiter)
SpecExit == InitExit /\ [][NextExit]_vars

\* findFirstEntry under every delivery of its abort
NextRace == Next \/ FindFirstEntryVisiting
\* over a file whose appended record is unparsable, and over one whose
\* appended record is the last of the stream
InitRace ==
  /\ InitWith({CommaStrideConfig, ManualFlushConfig})
  /\ file = FileOf(MaxRecords - 1, FALSE, cfg.delimiter)
SpecRace == InitRace /\ [][NextRace]_vars

\* one tokenizer fed a stream chunk by chunk: every stream over a delimiter
\* byte, a second delimiter byte and a digit, cut in every way, under a
\* one-byte delimiter, a two-byte delimiter of different bytes and a
\* two-byte delimiter of equal bytes
Streams ==
  UNION {[1 .. n -> {NL, COMMA, DIGIT0 + FirstValue}] : n \in 0 .. MaxStream}
SplitBuffers == {<< NL >>, << COMMA, NL >>, << NL, NL >>}

InitLines ==
  /\ Constructed({ReadonlyConfig})
  /\ file = << >>
  /\ viewScan = NoScan
  /\ \E bytes \in Streams, splitBuffer \in SplitBuffers,
        skipFirstLine \in BOOLEAN :
       stream = [bytes |-> bytes, splitBuffer |-> splitBuffer,
                 skipFirstLine |-> skipFirstLine, rest |-> bytes,
                 t |-> TokInit(skipFirstLine), chunks |-> 0, phase |-> "open"]

\* transform(chunk) with the next n bytes of the stream, n = 0 an empty chunk
Transform ==
  /\ stream.phase = "open"
  /\ \E n \in 0 .. Len(stream.rest) :
       /\ n = Len(stream.rest) \/ stream.chunks + 1 < MaxChunks
       /\ n > 0 \/ stream.chunks + 1 < MaxChunks
       /\ stream' = [stream EXCEPT
                       !.t = TokTransform(@, SubSeq(stream.rest, 1, n),
                                          stream.splitBuffer),
                       !.rest = SubSeq(@, n + 1, Len(@)),
                       !.chunks = @ + 1]
  /\ UNCHANGED << instance, viewScan >>

\* flush() at the end of the stream
Flush ==
  /\ stream.phase = "open"
  /\ stream.rest = << >>
  /\ stream' = [stream EXCEPT !.t = TokFlush(@), !.phase = "ended"]
  /\ UNCHANGED << instance, viewScan >>

NextLines == Transform \/ Flush
SpecLines == InitLines /\ [][NextLines]_vars

\* appends to an instance with a sample cache
SpecInject ==
  InitWith({InjectConfig("zero"), InjectConfig("high"), InjectConfig("any")})
    /\ [][Next]_vars

\* appends and rebuilds under both delimiters
SpecLength ==
  InitWith({ManualFlushConfig, AutoFlushConfig, CommaShrinkConfig})
    /\ [][Next]_vars

\* point access under every setting of the downsizing options
SpecResize ==
  InitWith({ReadonlyConfig, ManualFlushConfig, InvertedConfig, DisabledConfig,
            ZeroThresholdConfig})
    /\ [][Next]_vars

\* scans of the whole array
NextScan == Next \/ FindLastEntry \/ FindLastIndex \/ Every
SpecScan ==
  InitWith({ReadonlyConfig, ManualFlushConfig, AutoFlushConfig})
    /\ [][NextScan]_vars

\* membership
NextIncludes == Next \/ Includes \/ IndexOf
\* a writable instance over a file of one full checkpoint interval
InitIncludes ==
  /\ InitWith({ManualFlushConfig})
  /\ file = FileOf(MaxRecords - 2, FALSE, cfg.delimiter)
SpecIncludes == InitIncludes /\ [][NextIncludes]_vars

\* every operation of the class
NextAll ==
  \/ Next
  \/ Slice
  \/ SliceAll
  \/ FindFirstEntry
  \/ Find
  \/ FindIndex
  \/ Some
  \/ FindLastEntry
  \/ FindLast
  \/ FindLastIndex
  \/ Includes
  \/ IndexOf
  \/ Every
  \/ Filter
  \/ ForEach
  \/ Map
  \/ SampleEntry
  \/ SampleValue
\* a read-only instance over an empty file and over a file that fits one
\* checkpoint interval, and a writable instance one record short of the
\* bound on the length
InitAll ==
  /\ InitWith({ReadonlyConfig, CommaConfig})
  /\ file \in {FileOf(n, FALSE, cfg.delimiter) :
                 n \in IF cfg.readonly THEN {0, MaxRecords - 1}
                       ELSE {MaxRecords - 1}}
SpecAll == InitAll /\ [][NextAll]_vars

\* point access repeated at one index
NextRepeat == Next \/ AtAgain
SpecRepeat ==
  InitWith({ManualFlushConfig, ReadonlyConfig, EagerConfig})
    /\ [][NextRepeat]_vars

\* appending under each flush policy
SpecPush ==
  InitWith({ThresholdConfig, AutoFlushConfig, ManualFlushConfig})
    /\ [][Next]_vars

\* every operation on a read-only instance that is not wholly resident and
\* has room left for a push
InitReadonly ==
  /\ InitWith({InvertedConfig})
  /\ file = FileOf(MaxRecords - 1, FALSE, cfg.delimiter)
SpecReadonly == InitReadonly /\ [][NextAll]_vars

(***************************************************************************)
(* Reference: the records of the file read independently of the instance,  *)
(* and what the array holds: the file's records, then the pending ones.    *)
(***************************************************************************)
RECURSIVE Segments(_, _, _)
Segments(bytes, d, cur) ==
  IF bytes = << >> THEN (IF cur = << >> THEN << >> ELSE << cur >>)
  ELSE IF Head(bytes) = d
       THEN (IF cur = << >> THEN << >> ELSE << cur >>)
              \o Segments(Tail(bytes), d, << >>)
       ELSE Segments(Tail(bytes), d, Append(cur, Head(bytes)))

RECURSIVE Decimal(_, _)
Decimal(digits, acc) ==
  IF digits = << >> THEN acc
  ELSE IF IsDigit(Head(digits))
       THEN Decimal(Tail(digits), acc * 10 + Head(digits) - DIGIT0)
       ELSE PARSE_ERROR

FileRecords(f) ==
  LET segs == Segments(f, cfg.delimiter, << >>)
  IN [i \in 1 .. Len(segs) |-> Decimal(segs[i], 0)]

Records == FileRecords(file) \o pushedValuesBuffer

\* a bound of slice or at against a length: negative counts from the end
Normalised(bound, length) ==
  IF bound < 0 THEN Max(0, bound + length) ELSE Min(bound, length)

SliceOf(records, a, b) ==
  SubSeq(records, Normalised(a, Len(records)) + 1, Normalised(b, Len(records)))

\* the first entry at or after fromIndex whose record the predicate accepts
FirstEntryOf(records, predicate, fromIndex) ==
  LET matches == {i \in Max(0, fromIndex) .. Len(records) - 1 :
                    records[i + 1] \in predicate}
  IN IF matches = {} THEN RetUndefined
     ELSE LET i == CHOOSE m \in matches : \A o \in matches : m <= o
          IN RetEntry(i, records[i + 1])

\* the entry of the greatest index whose record the predicate accepts
LastEntryOf(records, predicate) ==
  LET matches == {i \in 0 .. Len(records) - 1 : records[i + 1] \in predicate}
  IN IF matches = {} THEN RetUndefined
     ELSE LET i == CHOOSE m \in matches : \A o \in matches : m >= o
          IN RetEntry(i, records[i + 1])

\* the offsets of the first bytes of the records of a file
RECURSIVE RecordStarts(_, _, _, _)
RecordStarts(bytes, d, pos, inRecord) ==
  IF bytes = << >> THEN << >>
  ELSE IF Head(bytes) = d THEN RecordStarts(Tail(bytes), d, pos + 1, FALSE)
       ELSE (IF inRecord THEN << >> ELSE << pos >>)
              \o RecordStarts(Tail(bytes), d, pos + 1, TRUE)

\* the checkpoint table of a file for a stride: one entry for every record
\* whose index is a multiple of the stride, at the record's first byte
TableOf(f, stride) ==
  LET starts == RecordStarts(f, cfg.delimiter, 0, FALSE)
  IN IF starts = << >> THEN << [byte |-> 0, index |-> 0] >>
     ELSE [k \in 1 .. ((Len(starts) - 1) \div stride) + 1 |->
             [byte |-> starts[(k - 1) * stride + 1], index |-> (k - 1) * stride]]

(***************************************************************************)
(* Claims.                                                                 *)
(***************************************************************************)
\* C1: once flushPushedValues() has run, at(i) returns for every i in
\* [0, length) the decoded i-th record of the file, and raises no error
\* (stated for the calls that leave the stride as it is; C6 has the others).
C1_AtAfterFlushIsFileRecord ==
  (ready /\ lastOp.name = "flushPushedValues") =>
    \A i \in 0 .. arrayLength - 1 :
      at(State, i).s.elementsPerCheckpoint = elementsPerCheckpoint
        => at(State, i).ret = RetValue(JsAt(FileRecords(file), i))

\* C2: every pushed value that is still pending is what at returns at its
\* index, whichever chunk is resident and whatever at() calls came between.
C2_PendingValuesAreVisible ==
  ready =>
    \A k \in 1 .. Len(pushedValuesBuffer) :
      at(State, arrayLength - Len(pushedValuesBuffer) + k - 1).ret
        = RetValue(pushedValuesBuffer[k])

\* C3: push on an initialised writable instance returns the old length plus
\* the number of items, and length is that value when push completes, with
\* or without an automatic flush.
C3_PushReturnsNewLength ==
  (lastOp.name = "push" /\ ready /\ ~cfg.readonly) =>
    /\ ret = RetNumber(lastOp.length + Len(lastOp.items))
    /\ arrayLength = lastOp.length + Len(lastOp.items)

C3_PushWithAutoFlush ==
  /\ lastOp.name = "push"
  /\ cfg.maxPushedValuesBufferSize = 0
  /\ Len(lastOp.items) = 2
  /\ lastOp.length > 0
  /\ ret = RetNumber(lastOp.length + 2)
  /\ pushedValuesBuffer = << >>

\* C4: flushPushedValues() leaves a file whose independent parse is the
\* records it held before followed by the pushed values in push order.
C4_FlushAppendsRecords ==
  [][(lastOp'.name = "flushPushedValues" /\ ready)
       => FileRecords(file') = FileRecords(file) \o pushedValuesBuffer]_vars

\* C5: for an initialised array of length n, at(i) is undefined for i >= n
\* and for i < -n, and at(i) equals at(i + n) for -n <= i < 0.
C5_AtNormalisesIndex ==
  /\ (lastOp.name = "at" /\ ready
        /\ (lastOp.index >= lastOp.length \/ lastOp.index < -lastOp.length))
       => ret = RetUndefined
  /\ ready =>
       \A i \in (0 - arrayLength - 2) .. (arrayLength + 2) :
         /\ (i >= arrayLength \/ i < -arrayLength)
              => at(State, i).ret = RetUndefined
         /\ (-arrayLength <= i /\ i < 0)
              => at(State, i).ret = at(State, i + arrayLength).ret

C5_AtFromTheEnd ==
  /\ lastOp.name = "at"
  /\ lastOp.index = -1
  /\ lastOp.length > elementsPerCheckpoint
  /\ ret = RetValue(JsAt(Records, lastOp.length - 1))
  /\ at(State, -arrayLength).ret = RetValue(FirstValue)

\* C6: an at(i) call that shrinks the stride returns record i, for every
\* configuration of the maximum and the minimum stride.
C6_ShrinkIsTransparent ==
  [][(lastOp'.name = "at" /\ elementsPerCheckpoint' < elementsPerCheckpoint)
       => ret' = RetValue(JsAt(Records,
                   IF lastOp'.index < 0 THEN lastOp'.index + arrayLength
                   ELSE lastOp'.index))]_vars

\* C7: the stride starts at the configured maximum, never increases from a
\* state to the next, and is never downsized below the configured minimum.
C7_StrideOnlyShrinks ==
  /\ elementsPerCheckpoint = cfg.maxElementsPerCheckpoint
  /\ [][/\ elementsPerCheckpoint' <= elementsPerCheckpoint
        /\ elementsPerCheckpoint' < elementsPerCheckpoint
             => elementsPerCheckpoint' >= cfg.minElementsPerCheckpoint]_vars

\* C8: slice(a, b) returns the records with indices in [a', b') in ascending
\* order, a' and b' the normalised bounds, whichever chunk is resident.
C8_SliceIsTheRecords ==
  (lastOp.name = "slice" /\ ready) =>
    ret = RetList(SliceOf(FileRecords(file), lastOp.index, lastOp.end))

\* C9: slice(a, b) returns max(0, b' - a') elements, and slice() without
\* arguments returns length elements.
C9_SliceLength ==
  (lastOp.name = "slice" /\ ready) =>
    /\ ret.kind = "list"
    /\ Len(ret.list) = Max(0, Normalised(lastOp.end, lastOp.length)
                                - Normalised(lastOp.index, lastOp.length))
    /\ lastOp.flag => Len(ret.list) = lastOp.length

\* C10: findFirstEntry(p, thisArg, fromIndex) returns the entry of the
\* smallest index >= max(0, fromIndex) whose record satisfies p, with that
\* record as its value, or undefined when there is none (stated for the runs
\* in which the scheduled cancellation is delivered before the pipeline ends).
C10_FindFirstEntryIsFirstMatch ==
  (lastOp.name = "findFirstEntry" /\ ready /\ ~lastOp.flag) =>
    ret = FirstEntryOf(FileRecords(file), lastOp.predicate, lastOp.index)

\* C11: findLastEntry(p) returns the entry of the greatest index whose record
\* satisfies p, with that record as its value, or undefined when there is
\* none; findLastIndex(p) returns that index, or -1.
C11_FindLastEntryIsLastMatch ==
  /\ (lastOp.name = "findLastEntry" /\ ready)
       => ret = LastEntryOf(FileRecords(file), lastOp.predicate)
  /\ (lastOp.name = "findLastIndex" /\ ready)
       => ret = EntryIndex(LastEntryOf(FileRecords(file), lastOp.predicate))

\* C12: every(p) returns true exactly when p accepts every record of the
\* array, and every call of p receives the record that belongs to the index
\* it is given, whichever chunk is resident when every is called.
C12_EveryTestsEachRecord ==
  /\ (lastOp.name = "every" /\ ready)
       => ret = RetBoolean(\A i \in 1 .. Len(FileRecords(file)) :
                              FileRecords(file)[i] \in lastOp.predicate)
  /\ ready =>
       \A predicate \in EveryPredicates :
         \A k \in 1 .. Len(every(State, predicate).calls) :
           every(State, predicate).calls[k].value
             = JsAt(FileRecords(every(State, predicate).s.file),
                    every(State, predicate).calls[k].index)

\* C13: with fromIndex >= length, includes(x, fromIndex) returns false and
\* indexOf(x, fromIndex) returns -1, and neither changes anything: no flush,
\* no change of the resident chunk, of the checkpoints or of the counters.
C13_FromIndexPastTheEnd ==
  /\ (ready /\ lastOp.name = "includes" /\ lastOp.index >= lastOp.length)
       => ret = RetBoolean(FALSE)
  /\ (ready /\ lastOp.name = "indexOf" /\ lastOp.index >= lastOp.length)
       => ret = RetNumber(-1)
  /\ ready =>
       \A searchElement \in SearchElements, endFirst \in BOOLEAN :
         \A fromIndex \in arrayLength .. (arrayLength + 2) :
           /\ includes(State, searchElement, fromIndex, endFirst)
                = [s |-> State, ret |-> RetBoolean(FALSE)]
           /\ indexOf(State, searchElement, fromIndex, endFirst)
                = [s |-> State, ret |-> RetNumber(-1)]

C13_PastTheEndWithPendingValues ==
  /\ ready
  /\ lastOp.name = "includes"
  /\ lastOp.index >= lastOp.length
  /\ lastOp.length > 0
  /\ pushedValuesBuffer # << >>
  /\ FirstValue \in lastOp.predicate
  /\ ret = RetBoolean(FALSE)

\* C14: for -length <= fromIndex < 0, includes(x, fromIndex) and
\* indexOf(x, fromIndex) give what they give with fromIndex + length, which
\* is whether and where x occurs at an index of fromIndex + length or more
\* (stated for the runs in which the scheduled cancellation is delivered
\* before the pipeline ends).
C14_NegativeFromIndex ==
  ready =>
    \A searchElement \in SearchElements :
      \A fromIndex \in (0 - arrayLength) .. -1 :
        /\ includes(State, searchElement, fromIndex, FALSE).ret
             = includes(State, searchElement, fromIndex + arrayLength, FALSE).ret
        /\ indexOf(State, searchElement, fromIndex, FALSE).ret
             = indexOf(State, searchElement, fromIndex + arrayLength, FALSE).ret
        /\ includes(State, searchElement, fromIndex, FALSE).ret
             = NotNull(FirstEntryOf(Records, {searchElement},
                                    fromIndex + arrayLength))
        /\ indexOf(State, searchElement, fromIndex, FALSE).ret
             = EntryIndex(FirstEntryOf(Records, {searchElement},
                                       fromIndex + arrayLength))

\* C15: over an empty file, whatever the configuration, init leaves length 0
\* and the single checkpoint (index 0, byte 0); sampleIndex() is then -1,
\* sampleEntry() and sampleValue() resolve to undefined and at(i) is
\* undefined for every i, none of them raising an error.
C15_EmptyFile ==
  /\ (ready /\ file = << >> /\ pushedValuesBuffer = << >>) =>
       /\ arrayLength = 0
       /\ checkpoints = << [byte |-> 0, index |-> 0] >>
       /\ sampleIndex(State) = {-1}
       /\ \A draws \in DrawSeqs(Min(randomSampleSize * 2,
                                    cfg.maxRandomElementsCacheSize), arrayLength) :
            /\ sampleEntry(State, -1, draws).ret = RetUndefined
            /\ sampleValue(State, -1, draws).ret = RetUndefined
       /\ \A i \in -2 .. 2 : at(State, i).ret = RetUndefined
  /\ (ready /\ file = << >> /\ pushedValuesBuffer = << >>
        /\ lastOp.name \in {"sampleEntry", "sampleValue", "at"})
       => ret = RetUndefined
  /\ (~ready /\ file = << >>) =>
       \A draws \in DrawSeqs(randomSampleSize, 0) :
         /\ init(State, draws).ret = RetVoid
         /\ init(State, draws).s.arrayLength = 0
         /\ init(State, draws).s.checkpoints = << [byte |-> 0, index |-> 0] >>

C15_SampleOfEmptyFile ==
  /\ ready
  /\ file = << >>
  /\ arrayLength = 0
  /\ lastOp.name = "sampleEntry"
  /\ lastOp.index = -1
  /\ ret = RetUndefined
  /\ checkpoints = << [byte |-> 0, index |-> 0] >>

\* C16: init, and every rebuild of the table that get makes when it changes
\* the stride, leaves one checkpoint for every record whose index is a
\* multiple of the stride (and the checkpoint (0, 0) over no records), each
\* at the offset of the first byte of its record, and the number of records
\* as the length.
C16_TableAfterRebuild ==
  [][((lastOp'.name = "init" /\ ~ready /\ ready')
        \/ (lastOp'.name = "at" /\ elementsPerCheckpoint' # elementsPerCheckpoint))
       => /\ checkpoints' = TableOf(file', elementsPerCheckpoint')
          /\ arrayLength' = Len(FileRecords(file'))]_vars
\* C17: init on an initialised instance throws, and leaves the length, the
\* checkpoint table, the resident chunk, the sample cache, the hit and miss
\* counters, and with them the file, the stride and the pending values as
\* they were.
C17_InitTwiceFails ==
  [][(ready /\ lastOp'.name = "init")
       => /\ ret' = RetError("AlreadyInitialized")
          /\ UNCHANGED << file, ready, elementsPerCheckpoint, checkpoints,
                          cachedChunk, pushedValuesBuffer, arrayLength,
                          cacheHits, cacheMisses, randomElementsCache,
                          randomSampleSize >>]_vars

\* a second init has been refused while values were pending and the array
\* was not wholly resident
C17_SecondInitWithPendingValues ==
  /\ ready
  /\ lastOp.name = "init"
  /\ ret = RetError("AlreadyInitialized")
  /\ pushedValuesBuffer # << >>
  /\ arrayLength > elementsPerCheckpoint

\* the operations that need an initialised instance
NeedInit ==
  {"at", "every", "some", "find", "findIndex", "findFirstEntry", "findLast",
   "findLastIndex", "findLastEntry", "filter", "forEach", "includes",
   "indexOf", "slice", "sampleEntry", "sampleValue", "map", "push"}

\* C18: before init has completed, each of at, every, some, find, findIndex,
\* findFirstEntry, findLast, findLastIndex, findLastEntry, filter, forEach,
\* includes, indexOf, slice, sampleEntry, sampleValue and map throws the
\* not-initialised error, and so does push on a writable instance; push on a
\* read-only instance throws the read-only error. None of them buffers a
\* value, touches the file or changes the instance.
C18_BeforeInit ==
  [][(~ready /\ lastOp'.name \in NeedInit)
       => /\ ret' = IF lastOp'.name = "push" /\ cfg.readonly
                    THEN RetError("ReadOnlyError")
                    ELSE RetError(NOT_READY_ERROR)
          /\ UNCHANGED << file, ready, elementsPerCheckpoint, checkpoints,
                          cachedChunk, pushedValuesBuffer, arrayLength,
                          cacheHits, cacheMisses, randomElementsCache,
                          randomSampleSize >>]_vars

\* C18 as stated: before init has completed each of these operations, push
\* on any instance included, throws the not-initialised error and changes
\* nothing.
C18_BeforeInitAsStated ==
  [][(~ready /\ lastOp'.name \in NeedInit)
       => /\ ret' = RetError(NOT_READY_ERROR)
          /\ UNCHANGED << file, ready, elementsPerCheckpoint, checkpoints,
                          cachedChunk, pushedValuesBuffer, arrayLength,
                          cacheHits, cacheMisses, randomElementsCache,
                          randomSampleSize >>]_vars

\* push has been refused on a writable instance that was not initialised
C18_PushBeforeInit ==
  /\ ~ready
  /\ ~cfg.readonly
  /\ file # << >>
  /\ lastOp.name = "push"
  /\ ret = RetError(NOT_READY_ERROR)
  /\ pushedValuesBuffer = << >>

\* C19: on a read-only instance push throws the read-only error and leaves
\* the pending values, the length, the resident chunk, the sample cache and
\* the rest of the instance as they were; no operation on a read-only
\* instance changes the file, and none leaves a value pending.
C19_ReadonlyNeverWrites ==
  [][cfg.readonly
       => /\ file' = file
          /\ pushedValuesBuffer' = << >>
          /\ lastOp'.name = "push"
               => /\ ret' = RetError("ReadOnlyError")
                  /\ UNCHANGED << ready, elementsPerCheckpoint, checkpoints,
                                  cachedChunk, pushedValuesBuffer,
                                  arrayLength, cacheHits, cacheMisses,
                                  randomElementsCache, randomSampleSize >>]_vars

\* push has been refused on an initialised read-only instance whose resident
\* chunk is the last one and has room, and whose sample cache is filled
C19_PushOnReadonly ==
  /\ cfg.readonly
  /\ ready
  /\ lastOp.name = "push"
  /\ ret = RetError("ReadOnlyError")
  /\ randomElementsCache # << >>
  /\ cachedChunk.idx = Len(checkpoints) - 1
  /\ Len(cachedChunk.data) < elementsPerCheckpoint

\* C20: after a push that returned, at most maxPushedValuesBufferSize values
\* are pending. A push that takes the pending values above the maximum
\* leaves none pending and the file holding its records followed by all of
\* them; a push that leaves them at or below the maximum leaves the file as
\* it was and the pushed values pending after the earlier ones.
C20_BufferStaysWithinLimit ==
  [][(ready /\ ~cfg.readonly /\ lastOp'.name = "push")
       => /\ Len(pushedValuesBuffer') <= cfg.maxPushedValuesBufferSize
          /\ IF Len(pushedValuesBuffer) + Len(lastOp'.items)
                  > cfg.maxPushedValuesBufferSize
             THEN /\ pushedValuesBuffer' = << >>
                  /\ FileRecords(file')
                       = FileRecords(file) \o pushedValuesBuffer
                           \o lastOp'.items
             ELSE /\ file' = file
                  /\ pushedValuesBuffer'
                       = pushedValuesBuffer \o lastOp'.items]_vars

\* a push of one value has flushed it together with the two that were
\* pending at the maximum
C20_FlushOfWholeBuffer ==
  /\ ready
  /\ lastOp.name = "push"
  /\ ret = RetNumber(arrayLength)
  /\ cfg.maxPushedValuesBufferSize = 2
  /\ Len(lastOp.items) = 1
  /\ pushedValuesBuffer = << >>
  /\ Len(FileRecords(file)) = arrayLength

\* the fraction a is not below the fraction b
NotBelow(a, b) == a[1] * b[2] >= b[1] * a[2]

\* C21: an at call that follows an at call at the same in-range index
\* returns what that call returned and, once more accesses than
\* minAccessesBeforeDownsizing have been made, leaves cacheHitRatio no lower
\* than it found it, also when the index is that of a pending value.
C21_RepeatedAt ==
  [][(/\ ready
      /\ lastOp.name = "at"
      /\ lastOp'.name = "at"
      /\ lastOp'.index = lastOp.index
      /\ lastOp.index < arrayLength
      /\ lastOp.index >= 0 - arrayLength)
       => /\ ret' = ret
          /\ cacheHits + cacheMisses > cfg.minAccessesBeforeDownsizing
               => NotBelow(cacheHitRatio(State'), cacheHitRatio(State))]_vars

C23_SampleIsAnEntry ==
  /\ (ready /\ lastOp.name = "sampleEntry" /\ lastOp.length > 0)
       => /\ ret.kind = "entry"
          /\ ret.index >= 0
          /\ ret.index < arrayLength
          /\ ret.val = Records[ret.index + 1]
  /\ ready
       => \A i \in 1 .. Len(randomElementsCache) :
            /\ randomElementsCache[i] # Hole
            /\ randomElementsCache[i].index >= 0
            /\ randomElementsCache[i].index < arrayLength
            /\ randomElementsCache[i].value
                 = Records[randomElementsCache[i].index + 1]

\* the records of the file after the header
AfterHeader(f) ==
  IF FileRecords(f) = << >> THEN << >> ELSE Tail(FileRecords(f))

\* C24: with skipHeader the length is the number of records after the first
\* one, at(i) returns record i + 1 of the file for every i below the length,
\* and slice and findFirstEntry answer over the records after the first one,
\* whichever checkpoint interval they read.
C24_HeaderIsSkipped ==
  (ready /\ cfg.skipHeader)
    => /\ arrayLength = Len(AfterHeader(file))
       /\ (lastOp.name = "at" /\ lastOp.index >= 0
             /\ lastOp.index < arrayLength)
            => ret = RetValue(AfterHeader(file)[lastOp.index + 1])
       /\ lastOp.name = "slice"
            => ret = RetList(SliceOf(AfterHeader(file), lastOp.index,
                                     lastOp.end))
       /\ (lastOp.name = "findFirstEntry" /\ ~lastOp.flag)
            => ret = FirstEntryOf(AfterHeader(file), lastOp.predicate,
                                  lastOp.index)

\* C25: the length of a view over the initialised instance is the length of
\* the instance, and at(i) of the view does to the instance what at(i) of
\* the instance does and returns the mapping of the record that call
\* returns, or undefined when that call returns undefined.
C25_ViewFollowsArray ==
  [][/\ viewLength(State') = arrayLength'
     /\ (ready /\ lastOp'.name = "view.at")
          => /\ State' = at(State, lastOp'.index).s
             /\ at(State, lastOp'.index).ret.kind = "value"
                  => ret' = RetValue(mapFn(at(State, lastOp'.index).ret.val))
             /\ at(State, lastOp'.index).ret = RetUndefined
                  => ret' = RetUndefined]_vars

\* the view has returned the mapping of a record read from the file
C25_MappedThroughView ==
  /\ ready
  /\ lastOp.name = "view.at"
  /\ cacheMisses > 0
  /\ ret.kind = "value"
  /\ lastOp.index >= 0
  /\ lastOp.index < Len(FileRecords(file))
  /\ ret.val = mapFn(FileRecords(file)[lastOp.index + 1])

\* the bytes of one record v + 1 and the delimiter for every record v
RECURSIVE MapOutput(_)
MapOutput(records) ==
  IF records = << >> THEN << >>
  ELSE Stringify(Head(records) + 1) \o << cfg.delimiter >>
         \o MapOutput(Tail(records))

\* the map steps that write the mapping of every record of the file they
\* leave, in order, or throw the SyntaxError of a record that does not parse
MapWritesEveryRecord ==
  (ready /\ lastOp'.name = "map")
    => IF \E i \in 1 .. Len(FileRecords(file')) :
            FileRecords(file')[i] = PARSE_ERROR
       THEN ret' = RetError("SyntaxError")
       ELSE ret' = Ret("void", 0, 0, MapOutput(FileRecords(file')))

ReadOps ==
  {"at", "every", "filter", "find", "findIndex", "findFirstEntry",
   "findLast", "findLastIndex", "findLastEntry", "forEach", "slice"}

\* C27: when every, filter, find, findIndex, findFirstEntry, findLast,
\* findLastIndex, findLastEntry, forEach, slice or at has returned on an
\* initialised instance, no value is pending: each of them flushes the
\* pending values before it reads.
C27_ReadsFlushFirst ==
  (ready /\ lastOp.name \in ReadOps) => pushedValuesBuffer = << >>

\* C28: when the stride is at least the length, no at, every, filter,
\* findFirstEntry, findLastEntry, forEach, slice or sampleEntry opens a read
\* of the file, whatever its arguments: each answers from the resident
\* chunk. (The scans are taken after their flush of the pending values.)
C28_ResidentMeansNoRead ==
  (ready /\ isFullyInMemory(State) /\ cachedChunk # NullChunk)
    => /\ \A index \in (0 - arrayLength - 1) .. arrayLength :
            ~atReadsFile(State, index)
       /\ \A predicate \in EveryPredicates :
            ~everyReadsFile(flushPushedValues(State), predicate)
       /\ ~scanReadsFile(flushPushedValues(State))
       /\ \A fromIndex \in FromIndexes :
            ~findFirstEntryReadsFile(flushPushedValues(State), fromIndex)
       /\ \A start \in SliceBounds, end \in SliceBounds \cup {arrayLength} :
            ~sliceReadsFile(flushPushedValues(State), start, end)
       /\ ~sampleEntryReadsFile(State)

\* the parsed records a stream from byte offset `byte` hands to its visitor
StreamedFrom(byte) ==
  LET lines == getLines(ReadStream(file, byte, -1), cfg.delimiter,
                        cfg.skipHeader)
  IN [k \in 1 .. Len(lines) |-> ParseLine(lines[k].line)]
\* the first position from `first` on whose record is unparsable or in
\* stopAt, 0 if there is none
FirstStop(vals, first, stopAt) ==
  LET K == {k \in first .. Len(vals) :
              vals[k] = PARSE_ERROR \/ vals[k] \in stopAt}
  IN IF K = {} THEN 0 ELSE CHOOSE k \in K : \A j \in K : k <= j
Parsable(vals) == \A k \in 1 .. Len(vals) : vals[k] # PARSE_ERROR
\* every, streamed: true when no record stops it, the parse error when an
\* unparsable record comes first, false on a rejected record
EveryResolves ==
  (lastOp.name = "every" /\ everyReadsFile(State, lastOp.predicate))
    => LET vals == StreamedFrom(0)
           k == FirstStop(vals, 1,
                          (Numbers \cup {UNDEFINED}) \ lastOp.predicate)
       IN /\ k = 0 => ret = RetBoolean(TRUE)
          /\ (k > 0 /\ vals[k] = PARSE_ERROR) => ret = RetError("SyntaxError")
          /\ (k > 0 /\ Parsable(vals)) => ret = RetBoolean(FALSE)
\* findFirstEntry, streamed from the checkpoint cp of its start index
FindFirstEntryResolvesFrom(cp, startIndex) ==
  LET vals == StreamedFrom(cp.byte)
      k == FirstStop(vals, Max(1, startIndex - cp.index + 1), lastOp.predicate)
  IN /\ k = 0 => ret = RetUndefined
     /\ (k > 0 /\ vals[k] = PARSE_ERROR) => ret = RetError("SyntaxError")
     /\ (k > 0 /\ Parsable(vals))
          => \/ ret.kind = "entry" /\ ret.val = vals[k]
             \/ lastOp.flag /\ ret = RetUndefined
FindFirstEntryResolves ==
  (/\ lastOp.name = "findFirstEntry"
   /\ findFirstEntryReadsFile(State, lastOp.index)
   /\ Max(0, lastOp.index) \div elementsPerCheckpoint < Len(checkpoints))
    => FindFirstEntryResolvesFrom(
         checkpoints[Max(0, lastOp.index) \div elementsPerCheckpoint + 1],
         Max(0, lastOp.index))
\* slice, streamed from the checkpoint cp: a list, or the parse error of a
\* record of the range
SliceResolvesFrom(cp, startIdx, endIdx) ==
  LET vals == StreamedFrom(cp.byte)
      k == FirstStop(SubSeq(vals, 1, Min(Len(vals), endIdx - cp.index)),
                     Max(1, startIdx - cp.index + 1), {})
  IN IF k = 0 THEN ret.kind = "list" ELSE ret = RetError("SyntaxError")
SliceResolves ==
  (/\ lastOp.name = "slice"
   /\ sliceReadsFile(State, lastOp.index, lastOp.end)
   /\ clampIndex(lastOp.index, arrayLength) \div elementsPerCheckpoint
        < Len(checkpoints))
    => SliceResolvesFrom(
         checkpoints[clampIndex(lastOp.index, arrayLength)
                       \div elementsPerCheckpoint + 1],
         clampIndex(lastOp.index, arrayLength),
         IF lastOp.end >= arrayLength THEN arrayLength
         ELSE clampIndex(lastOp.end, arrayLength))

Wrapped(index) == IF index < 0 THEN index + arrayLength ELSE index
\* an at call on the initialised instance with an index inside the array
AtInRange ==
  /\ ready
  /\ lastOp'.name = "at"
  /\ lastOp'.index < arrayLength
  /\ lastOp'.index >= 0 - arrayLength
\* the conditions of a shrink, in the state before the call whose index is i
ShrinkDue(i) ==
  /\ cachedChunk.idx # Wrapped(i) \div elementsPerCheckpoint
  /\ Wrapped(i) < arrayLength - Len(pushedValuesBuffer)
  /\ cfg.enableCheckpointDownsizing
  /\ cacheHits + cacheMisses + 1 > cfg.minAccessesBeforeDownsizing
  /\ cacheHits * cfg.resizeCacheHitThreshold[2]
       < cfg.resizeCacheHitThreshold[1] * (cacheHits + cacheMisses + 1)
  /\ elementsPerCheckpoint > cfg.minElementsPerCheckpoint
\* the table has one entry for every multiple of the stride
TableFollows(table, stride) ==
  \A k \in 1 .. Len(table) : table[k].index = (k - 1) * stride

\* C30: an at call shrinks the stride exactly when it is a miss outside the
\* pending values with downsizing enabled, the accesses (this one counted)
\* above the warm-up count, the hit ratio below the threshold and the stride
\* above its floor; the shrink halves the stride down to the floor, zeroes
\* both counters and rebuilds the table; with downsizing disabled or a
\* threshold of 0 no step changes the stride.
C30_ShrinkExactlyWhenDue ==
  [][/\ AtInRange
       => /\ elementsPerCheckpoint' < elementsPerCheckpoint
               <=> ShrinkDue(lastOp'.index)
          /\ elementsPerCheckpoint' < elementsPerCheckpoint
               => /\ elementsPerCheckpoint'
                       = Max(cfg.minElementsPerCheckpoint,
                             elementsPerCheckpoint \div 2)
                  /\ cacheHits' = 0
                  /\ cacheMisses' = 0
                  /\ TableFollows(checkpoints', elementsPerCheckpoint')
     /\ (ready /\ (~cfg.enableCheckpointDownsizing
                     \/ cfg.resizeCacheHitThreshold[1] = 0))
          => elementsPerCheckpoint' = elementsPerCheckpoint]_vars

\* an at call missed with the conditions met and left the halved stride
C30_StrideHalved ==
  /\ lastOp.name = "at"
  /\ cfg.minElementsPerCheckpoint < cfg.maxElementsPerCheckpoint
  /\ elementsPerCheckpoint = cfg.minElementsPerCheckpoint
  /\ cacheHits + cacheMisses = 0
  /\ Len(checkpoints) > 1

\* the chunk a full build at the current stride installs for the target w
BuiltChunk(w) == generateCheckpoints(State, w).s.cachedChunk
\* the interval of w: its number, and the records of the flushed file whose
\* sequence numbers lie in it
IntervalOf(w, records) ==
  [idx |-> w \div elementsPerCheckpoint,
   data |-> SubSeq(records,
                   (w \div elementsPerCheckpoint) * elementsPerCheckpoint + 1,
                   Min(Len(records),
                       (w \div elementsPerCheckpoint) * elementsPerCheckpoint
                         + elementsPerCheckpoint))]

\* C31: a full build with warm-up target w leaves as the resident chunk the
\* interval floor(w / stride) with exactly the records of that interval, in
\* order, for every w inside the array.
C31_BuildInstallsInterval ==
  (ready /\ Parsable(FileRecords(flushPushedValues(State).file)))
    => \A w \in 0 .. arrayLength - 1 :
         BuiltChunk(w) = IntervalOf(w, FileRecords(flushPushedValues(State).file))

\* the last operation flushed pending values: flushPushedValues, or a push
\* that ran into the limit of the buffer
Flushed ==
  /\ ready
  /\ pushedValuesBuffer = << >>
  /\ \/ lastOp.name = "flushPushedValues"
     \/ lastOp.name = "push" /\ lastOp.items # << >>

\* C32: after a flush, explicit or inside push, the checkpoint table is the
\* table of the resulting file at the current stride: one entry (k * stride,
\* first byte of record k * stride) for every k * stride below the length.
C32_TableAfterFlush ==
  Flushed => checkpoints = TableOf(file, elementsPerCheckpoint)

\* the non-empty segments of a stream between the delimiters found from
\* left to right, each with the offset of its first byte; `from` is where
\* the segment under way began
RECURSIVE SegmentsAt(_, _, _, _)
SegmentsAt(bytes, d, pos, from) ==
  IF pos + Len(d) > Len(bytes)
  THEN IF from < Len(bytes)
       THEN << [byteIdx |-> from, line |-> SubSeq(bytes, from + 1, Len(bytes))] >>
       ELSE << >>
  ELSE IF SubSeq(bytes, pos + 1, pos + Len(d)) = d
       THEN (IF pos > from
             THEN << [byteIdx |-> from, line |-> SubSeq(bytes, from + 1, pos)] >>
             ELSE << >>)
              \o SegmentsAt(bytes, d, pos + Len(d), pos + Len(d))
       ELSE SegmentsAt(bytes, d, pos + 1, from)
\* the triples expected of a stream: its segments, without the first when a
\* header is skipped, numbered from 0
Numbered(segs) ==
  [k \in 1 .. Len(segs) |->
     [idx |-> k - 1, byteIdx |-> segs[k].byteIdx, line |-> segs[k].line]]
ExpectedLines(bytes, d, skipFirstLine) ==
  Numbered(IF skipFirstLine /\ SegmentsAt(bytes, d, 0, 0) # << >>
           THEN Tail(SegmentsAt(bytes, d, 0, 0))
           ELSE SegmentsAt(bytes, d, 0, 0))
\* a sequence of triples without the byte offsets
Unplaced(lines) ==
  [k \in 1 .. Len(lines) |-> [idx |-> lines[k].idx, line |-> lines[k].line]]
\* what the whole stream gives when it arrives as one chunk
InOneChunk ==
  getLinesOf(IF stream.bytes = << >> THEN << >> ELSE << stream.bytes >>,
             stream.splitBuffer, stream.skipFirstLine)

\* C33: however a stream is cut into chunks, the tokenizer has emitted at
\* the end the triples it emits for the stream in one chunk, and their
\* records are the non-empty segments between delimiters, in order and
\* numbered from 0, the segment after the last delimiter included.
C33_ChunkingDoesNotMatter ==
  stream.phase = "ended"
    => /\ stream.t.out = InOneChunk
       /\ Unplaced(stream.t.out)
            = Unplaced(ExpectedLines(stream.bytes, stream.splitBuffer,
                                     stream.skipFirstLine))

\* the byte offsets of a sequence of triples
Offsets(lines) == [k \in 1 .. Len(lines) |-> lines[k].byteIdx]

\* C34: the offset attached to every emitted record is the offset of its
\* first byte in the stream, whatever zero-length records or skipped first
\* record precede it, and no zero-length record is emitted.
C34_OffsetOfFirstByte ==
  stream.phase = "ended"
    => /\ Offsets(stream.t.out)
            = Offsets(ExpectedLines(stream.bytes, stream.splitBuffer,
                                    stream.skipFirstLine))
       /\ \A k \in 1 .. Len(stream.t.out) : stream.t.out[k].line # << >>

\* C35: no operation on an initialised instance leaves a smaller length than
\* it found, and an at call that rebuilds the table (after flushing what was
\* pending) leaves the length it found.
C35_LengthNeverDecreases ==
  [][ready => /\ arrayLength' >= arrayLength
              /\ (lastOp'.name = "at"
                    /\ elementsPerCheckpoint' # elementsPerCheckpoint)
                   => arrayLength' = arrayLength]_vars

\* the sample cache after the items were injected with the draws rands into
\* an array of length L: a slot holds the last item drawn for it, or what it
\* held
Injected(cache, items, rands, L) ==
  [k \in 1 .. Len(cache) |->
     LET J == {j \in 1 .. Len(items) : rands[j] = k - 1}
     IN IF J = {} THEN cache[k]
        ELSE LET j == CHOOSE x \in J : \A y \in J : y <= x
             IN [index |-> L + j - 1, value |-> items[j]]]
\* a push on an initialised writable instance
Pushing == ready /\ ~cfg.readonly /\ lastOp'.name = "push"

\* C36: push puts item j into the slot floor(r_j * (L + j)) of the sample
\* cache when that number is below the size of the cache, as the entry
\* (L + j, item), and changes no other slot and not the size; with a source
\* that always gives 0 and a non-empty cache, slot 0 then holds the last
\* pushed item.
C36_PushInjectsIntoSample ==
  [][Pushing
       => /\ \E rands \in PushRands(lastOp'.items, arrayLength) :
               randomElementsCache'
                 = Injected(randomElementsCache, lastOp'.items, rands,
                            arrayLength)
          /\ (cfg.randomFn = "zero" /\ randomElementsCache # << >>)
               => randomElementsCache'[1]
                    = [index |-> arrayLength + Len(lastOp'.items) - 1,
                       value |-> lastOp'.items[Len(lastOp'.items)]]]_vars
\* two items were pushed with a source that gives 0 into a cache of two
\* slots: slot 0 holds the second item, slot 1 is as init left it
C36_LastItemInSlotZero ==
  /\ lastOp.name = "push"
  /\ cfg.randomFn = "zero"
  /\ Len(lastOp.items) = 2
  /\ Len(randomElementsCache) = 2
  /\ randomElementsCache[1]
       = [index |-> lastOp.length + 1, value |-> lastOp.items[2]]

\* C37: on an initialised instance the resident chunk holds at most stride
\* entries, and its entry j is the record with index idx * stride + j, of the
\* file or still pending.
C37_ChunkIsCoherent ==
  (ready /\ cachedChunk # NullChunk)
    => /\ Len(cachedChunk.data) <= elementsPerCheckpoint
       /\ \A j \in 0 .. Len(cachedChunk.data) - 1 :
            cachedChunk.data[j + 1]
              = JsAt(Records, cachedChunk.idx * elementsPerCheckpoint + j)

\* C38: no at call ends in the error raised when the array counts as fully
\* resident and the resident chunk is not the one of the index.
C38_NeverFullyInMemoryError ==
  ~(lastOp.name = "at" /\ ret = RetError("FullyInMemoryError"))


\* the streamed findFirstEntry last called met a record its predicate
\* accepts, every record from the start index up to it being parsable
MatchedIn(cp, startIndex) ==
  LET vals == StreamedFrom(cp.byte)
      k == FirstStop(vals, Max(1, startIndex - cp.index + 1), lastOp.predicate)
  IN k > 0 /\ vals[k] # PARSE_ERROR
FirstMatchIn(cp, startIndex) ==
  LET vals == StreamedFrom(cp.byte)
      k == FirstStop(vals, Max(1, startIndex - cp.index + 1), lastOp.predicate)
  IN RetEntry(cp.index + k - 1, vals[k])
StartCheckpoint ==
  checkpoints[Max(0, lastOp.index) \div elementsPerCheckpoint + 1]
Matched ==
  /\ ready
  /\ lastOp.name = "findFirstEntry"
  /\ findFirstEntryReadsFile(State, lastOp.index)
  /\ Max(0, lastOp.index) \div elementsPerCheckpoint < Len(checkpoints)
  /\ MatchedIn(StartCheckpoint, Max(0, lastOp.index))

C40_ViewForEachAwaitsScan ==
  /\ (lastOp.name = "view.forEach" /\ ret = RetVoid)
       => /\ viewScan.phase = "settled"
          /\ viewScan.failure = ""
          /\ Len(viewScan.seen) >= arrayLength
  /\ (lastOp.name = "view.forEach" /\ viewScan.failure # "")
       => ret = RetError(viewScan.failure)

=============================================================================
